---- MODULE Spec2Model ----
(***************************************************************************)
(* Model of the ICC profile codec of mhc_icc_gui.py: header encode/decode, *)
(* tag-table layout with data deduplication, profile assembly with the     *)
(* profile identifier, and the profile parser.                             *)
(*                                                                         *)
(* Python str values are sequences of character codes (ASCII code points), *)
(* Python bytes values are sequences of integers 0..255.  A call that can  *)
(* raise returns a record [ok |-> BOOLEAN, ...]; ok = FALSE is the raise.  *)
(***************************************************************************)
EXTENDS Integers, Sequences, FiniteSets, TLC

VARIABLES
    header_mode,        \* self.header_mode: "human" or "hex"
    header_values_hex,  \* self.header_values_hex: field key -> hex str
    header_vars,        \* self.header_vars: field key -> text of the widget variable(s)
    tags,               \* self.tags: sequence of TagEntry
    selected_tag,       \* self.selected_tag: <<>> (None) or <<id of the TagEntry object>>
    tag_table,          \* rows (iids) of the self.tag_table Treeview
    disk,               \* bytes of the file last written by save_profile
    next_id,            \* identity given to the next TagEntry object created
    workspace,          \* attributes of self that the tag editors set and read
    pc,                 \* name of the operation that ran last
    ret                 \* what that operation returned or raised

vars == <<header_mode, header_values_hex, header_vars, tags, selected_tag,
          tag_table, disk, next_id, workspace, pc, ret>>

NewWorkspace ==
    \* after __init__: kind is self.workspace_kind ("" for None), mode is
    \* self.workspace_mode and frame the editor frame that is packed;
    \* trc_values and trc_source_hex are <<>> while self has no such attribute
    \* and <<value>> once it has; selection is what self.tag_table.selection()
    \* returns; buttons is <<>> or <<the signature last given to
    \* update_remove_state>>: "Remove" is enabled for a signature and
    \* "Identity chad" for 'chad'; detached is <<>> or <<the TagEntry object
    \* that self.selected_tag names and that self.tags does not hold>>
    [kind |-> "", mode |-> "hex", frame |-> "hex", trc_values |-> <<>>,
     trc_source_hex |-> <<>>, selection |-> <<>>, buttons |-> <<>>, detached |-> <<>>]

----------------------------------------------------------------------------
(* Bounds of the model *)

MaxTags == 3
MaxDataLen == 4

----------------------------------------------------------------------------
(* Strings, bytes and hexadecimal text *)

RECURSIVE SumSeq(_)
SumSeq(s) == IF s = <<>> THEN 0 ELSE Head(s) + SumSeq(Tail(s))

RECURSIVE Flatten(_)
Flatten(ss) == IF ss = <<>> THEN <<>> ELSE Head(ss) \o Flatten(Tail(ss))

Repeat(x, n) == [i \in 1..n |-> x]

Slice(s, lo, hi) ==
    \* Python s[lo:hi] for 0 <= lo: clipped to the length of s
    LET h == IF hi > Len(s) THEN Len(s) ELSE hi
    IN  IF lo >= h THEN <<>> ELSE SubSeq(s, lo + 1, h)

UpperHexDigits == <<48, 49, 50, 51, 52, 53, 54, 55, 56, 57, 65, 66, 67, 68, 69, 70>>

HexChar(v) == UpperHexDigits[v + 1]

IsHexChar(c) == (c \in 48..57) \/ (c \in 65..70) \/ (c \in 97..102)

IsSpaceChar(c) == c \in {32, 9, 10, 11, 12, 13}

HexVal(c) == IF c <= 57 THEN c - 48 ELSE IF c <= 70 THEN c - 55 ELSE c - 87

clean_hex(value) == SelectSeq(value, IsHexChar)

bytes_hex_upper(b) ==
    \* bytes.hex().upper()
    [i \in 1..(2 * Len(b)) |->
        IF i % 2 = 1 THEN HexChar(b[(i + 1) \div 2] \div 16)
                     ELSE HexChar(b[i \div 2] % 16)]

RECURSIVE FromHexAt(_, _)
FromHexAt(s, i) ==
    \* bytes.fromhex: pairs of hex digits, ASCII whitespace allowed between
    \* pairs; anything else raises (marked by the element -1)
    IF i > Len(s) THEN <<>>
    ELSE IF IsSpaceChar(s[i]) THEN FromHexAt(s, i + 1)
    ELSE IF i + 1 <= Len(s) /\ IsHexChar(s[i]) /\ IsHexChar(s[i + 1])
         THEN <<16 * HexVal(s[i]) + HexVal(s[i + 1])>> \o FromHexAt(s, i + 2)
    ELSE <<-1>>

bytes_fromhex(s) ==
    LET r == FromHexAt(s, 1)
    IN  IF \E i \in 1..Len(r) : r[i] = -1
        THEN [ok |-> FALSE, err |-> "ValueError: non-hexadecimal number"]
        ELSE [ok |-> TRUE, val |-> r]

RECURSIVE HexDigitsOf(_, _)
HexDigitsOf(value, ndigits) ==
    IF ndigits = 0 THEN <<>>
    ELSE Append(HexDigitsOf(value \div 16, ndigits - 1), HexChar(value % 16))

FitsBytes(value, length_bytes) ==
    \* 0 <= value <= 256 ** length_bytes - 1; model integers stay below 2^31
    value >= 0 /\ (length_bytes >= 4 \/ value < 256 ^ length_bytes)

int_to_hex(value, length_bytes) ==
    IF ~FitsBytes(value, length_bytes)
    THEN [ok |-> FALSE, err |-> "Value does not fit"]
    ELSE [ok |-> TRUE, val |-> HexDigitsOf(value, 2 * length_bytes)]

pack_u32(value) ==
    \* struct.pack(">I", value)
    <<(value \div 16777216) % 256, (value \div 65536) % 256,
      (value \div 256) % 256, value % 256>>

----------------------------------------------------------------------------
(* TagEntry *)

TagEntry(id, signature, description, data_hex) ==
    [id |-> id, signature |-> signature, description |-> description,
     data_hex |-> data_hex, offset |-> 0]

data_bytes(tag) ==
    LET cleaned == clean_hex(tag.data_hex)
    IN  IF Len(cleaned) % 2 = 1
        THEN [ok |-> FALSE, err |-> "hex data must have an even number of characters"]
        ELSE bytes_fromhex(cleaned)

----------------------------------------------------------------------------
(* _layout_tags *)

tag_table_size(n) == 4 + n * 12

base_offset_NoCount(n) == 128 + n * 12

base_offset(n) == 128 + tag_table_size(n)

existing_offset_Never(data_offsets, data) == <<>>

existing_offset(data_offsets, data) ==
    \* data_offsets.get(data): <<>> is None, <<off>> the stored offset
    IF \E e \in data_offsets : e.data = data
    THEN <<(CHOOSE e \in data_offsets : e.data = data).offset>>
    ELSE <<>>

pad_None(offset_cursor) == 0

pad(offset_cursor) == (4 - (offset_cursor % 4)) % 4

layout_step_AppendDup(st, idx, data) ==
    \* reuses the offset of an identical earlier tag but stores the data again
    LET found == existing_offset(st.data_offsets, data)
        after == st.offset_cursor + Len(data)
        p == pad(after)
    IN  [offset_cursor |-> after + p,
         data_blocks |-> st.data_blocks \o data \o Repeat(0, p),
         data_offsets |-> st.data_offsets \cup
                          (IF found # <<>> THEN {}
                           ELSE {[data |-> data, offset |-> st.offset_cursor]}),
         layout |-> Append(st.layout,
                           [tag |-> idx,
                            offset |-> IF found # <<>> THEN found[1] ELSE st.offset_cursor,
                            size |-> Len(data)])]

layout_step(st, idx, data) ==
    \* one iteration of the loop over self.tags
    LET found == existing_offset(st.data_offsets, data)
    IN  IF found # <<>>
        THEN [st EXCEPT !.layout = Append(@, [tag |-> idx, offset |-> found[1],
                                              size |-> Len(data)])]
        ELSE LET tag_offset == st.offset_cursor
                 after == tag_offset + Len(data)
                 p == pad(after)
             IN  [offset_cursor |-> after + p,
                  data_blocks |-> st.data_blocks \o data \o Repeat(0, p),
                  data_offsets |-> st.data_offsets \cup
                                   {[data |-> data, offset |-> tag_offset]},
                  layout |-> Append(st.layout, [tag |-> idx, offset |-> tag_offset,
                                                size |-> Len(data)])]

RECURSIVE layout_loop(_, _, _)
layout_loop(ts, idx, st) ==
    IF idx > Len(ts) THEN st
    ELSE layout_loop(ts, idx + 1, layout_step(st, idx, data_bytes(ts[idx]).val))

_layout_tags(ts) ==
    IF \E i \in 1..Len(ts) : ~data_bytes(ts[i]).ok
    THEN [ok |-> FALSE, err |-> "tag data_bytes raised"]
    ELSE LET st == layout_loop(ts, 1, [offset_cursor |-> base_offset(Len(ts)),
                                       data_blocks |-> <<>>,
                                       data_offsets |-> {},
                                       layout |-> <<>>])
         IN  [ok |-> TRUE, layout |-> st.layout, data_blocks |-> st.data_blocks,
              total_size |-> st.offset_cursor]

offsets_assigned(ts, lay) ==
    IF ~lay.ok THEN [ok |-> FALSE, err |-> lay.err]
    ELSE [ok |-> TRUE,
          tags |-> [i \in 1..Len(ts) |-> [ts[i] EXCEPT !.offset = lay.layout[i].offset]]]

compute_offsets(ts) ==
    \* tag.offset = off for every (tag, off, _) of the layout
    offsets_assigned(ts, _layout_tags(ts))

----------------------------------------------------------------------------
(* Text helpers: the str methods the header codec uses *)

IsStrSpace(c) == (c \in 9..13) \/ (c \in 28..32)

RECURSIVE lstrip(_)
lstrip(s) == IF s # <<>> /\ IsStrSpace(Head(s)) THEN lstrip(Tail(s)) ELSE s

RECURSIVE rstrip(_)
rstrip(s) ==
    IF s # <<>> /\ IsStrSpace(s[Len(s)]) THEN rstrip(SubSeq(s, 1, Len(s) - 1)) ELSE s

strip(s) == rstrip(lstrip(s))

lower(s) == [i \in 1..Len(s) |-> IF s[i] \in 65..90 THEN s[i] + 32 ELSE s[i]]

upper(s) == [i \in 1..Len(s) |-> IF s[i] \in 97..122 THEN s[i] - 32 ELSE s[i]]

startswith(s, prefix) ==
    Len(s) >= Len(prefix) /\ SubSeq(s, 1, Len(prefix)) = prefix

ljust(s, width, fill) ==
    IF Len(s) >= width THEN s ELSE s \o Repeat(fill, width - Len(s))

zfill(s, width) ==
    IF Len(s) >= width THEN s ELSE Repeat(48, width - Len(s)) \o s

IsDigit(c) == c \in 48..57

RECURSIVE DecText(_)
DecText(n) ==
    \* str(n) for n >= 0
    IF n < 10 THEN <<48 + n>> ELSE Append(DecText(n \div 10), 48 + (n % 10))

RECURSIVE DecValue(_)
DecValue(digits) ==
    \* int(digits) for a sequence of decimal digit characters
    IF digits = <<>> THEN 0
    ELSE 10 * DecValue(SubSeq(digits, 1, Len(digits) - 1)) + (digits[Len(digits)] - 48)

RECURSIVE int_hex(_)
int_hex(hex_str) ==
    \* int(hex_str, 16) for a string of hexadecimal digits (value below 2^31)
    IF hex_str = <<>> THEN 0
    ELSE 16 * int_hex(SubSeq(hex_str, 1, Len(hex_str) - 1)) + HexVal(hex_str[Len(hex_str)])

RECURSIVE DigitPrefixLen(_)
DigitPrefixLen(s) ==
    IF s # <<>> /\ IsDigit(Head(s)) THEN 1 + DigitPrefixLen(Tail(s)) ELSE 0

----------------------------------------------------------------------------
(* Header field tables *)

DEVICE_CLASSES ==
    \* insertion order of the dict; each entry <<signature, description>>
    <<<<<<115, 99, 110, 114>>, <<73, 110, 112, 117, 116, 32, 100, 101, 118, 105, 99, 101, 32, 40, 115, 99, 97, 110, 110, 101, 114, 41>>>>,
      <<<<109, 110, 116, 114>>, <<68, 105, 115, 112, 108, 97, 121, 32, 100, 101, 118, 105, 99, 101>>>>,
      <<<<112, 114, 116, 114>>, <<79, 117, 116, 112, 117, 116, 32, 100, 101, 118, 105, 99, 101, 32, 40, 112, 114, 105, 110, 116, 101, 114, 41>>>>,
      <<<<108, 105, 110, 107>>, <<68, 101, 118, 105, 99, 101, 76, 105, 110, 107>>>>,
      <<<<115, 112, 97, 99>>, <<67, 111, 108, 111, 114, 83, 112, 97, 99, 101>>>>,
      <<<<97, 98, 115, 116>>, <<65, 98, 115, 116, 114, 97, 99, 116>>>>,
      <<<<110, 109, 99, 108>>, <<78, 97, 109, 101, 100, 67, 111, 108, 111, 114>>>>>>

COLOR_SPACES ==
    \* insertion order of the dict; each entry <<signature, description>>
    <<<<<<88, 89, 90, 32>>, <<110, 67, 73, 69, 88, 89, 90>>>>,
      <<<<76, 97, 98, 32>>, <<67, 73, 69, 76, 65, 66>>>>,
      <<<<76, 117, 118, 32>>, <<67, 73, 69, 76, 85, 86>>>>,
      <<<<89, 67, 98, 114>>, <<89, 67, 98, 67, 114>>>>,
      <<<<89, 120, 121, 32>>, <<89, 120, 121>>>>,
      <<<<82, 71, 66, 32>>, <<82, 71, 66>>>>,
      <<<<71, 82, 65, 89>>, <<71, 114, 97, 121>>>>,
      <<<<72, 83, 86, 32>>, <<72, 83, 86>>>>,
      <<<<72, 76, 83, 32>>, <<72, 76, 83>>>>,
      <<<<67, 77, 89, 75>>, <<67, 77, 89, 75>>>>,
      <<<<67, 77, 89, 32>>, <<67, 77, 89>>>>,
      <<<<50, 67, 76, 82>>, <<50, 32, 99, 111, 108, 111, 114>>>>,
      <<<<51, 67, 76, 82>>, <<51, 32, 99, 111, 108, 111, 114, 32, 40, 111, 116, 104, 101, 114, 32, 116, 104, 97, 110, 32, 116, 104, 111, 115, 101, 32, 108, 105, 115, 116, 101, 100, 32, 97, 98, 111, 118, 101, 41>>>>,
      <<<<52, 67, 76, 82>>, <<52, 32, 99, 111, 108, 111, 114, 32, 40, 111, 116, 104, 101, 114, 32, 116, 104, 97, 110, 32, 67, 77, 89, 75, 41>>>>,
      <<<<53, 67, 76, 82>>, <<53, 32, 99, 111, 108, 111, 114>>>>,
      <<<<54, 67, 76, 82>>, <<54, 32, 99, 111, 108, 111, 114>>>>,
      <<<<55, 67, 76, 82>>, <<55, 32, 99, 111, 108, 111, 114>>>>,
      <<<<56, 67, 76, 82>>, <<56, 32, 99, 111, 108, 111, 114>>>>,
      <<<<57, 67, 76, 82>>, <<57, 32, 99, 111, 108, 111, 114>>>>,
      <<<<65, 67, 76, 82>>, <<49, 48, 32, 99, 111, 108, 111, 114>>>>,
      <<<<66, 67, 76, 82>>, <<49, 49, 32, 99, 111, 108, 111, 114>>>>,
      <<<<67, 67, 76, 82>>, <<49, 50, 32, 99, 111, 108, 111, 114>>>>,
      <<<<68, 67, 76, 82>>, <<49, 51, 32, 99, 111, 108, 111, 114>>>>,
      <<<<69, 67, 76, 82>>, <<49, 52, 32, 99, 111, 108, 111, 114>>>>,
      <<<<70, 67, 76, 82>>, <<49, 53, 32, 99, 111, 108, 111, 114>>>>>>

PCS_CHOICES ==
    \* insertion order of the dict; each entry <<signature, description>>
    <<<<<<88, 89, 90, 32>>, <<80, 67, 83, 88, 89, 90>>>>,
      <<<<76, 97, 98, 32>>, <<80, 67, 83, 76, 65, 66>>>>>>

PLATFORM_CHOICES ==
    \* insertion order of the dict; each entry <<signature, description>>
    <<<<<<48, 48, 48, 48>>, <<69, 109, 112, 116, 121, 32, 40, 122, 101, 114, 111, 41>>>>,
      <<<<65, 80, 80, 76>>, <<65, 112, 112, 108, 101>>>>,
      <<<<77, 83, 70, 84>>, <<77, 105, 99, 114, 111, 115, 111, 102, 116>>>>,
      <<<<83, 71, 73, 32>>, <<83, 105, 108, 105, 99, 111, 110, 32, 71, 114, 97, 112, 104, 105, 99, 115>>>>,
      <<<<83, 85, 78, 87>>, <<83, 117, 110, 32, 77, 105, 99, 114, 111, 115, 121, 115, 116, 101, 109, 115>>>>>>

RENDERING_INTENTS ==
    \* element k + 1 is the name of intent k
    <<<<80, 101, 114, 99, 101, 112, 116, 117, 97, 108>>,
      <<77, 101, 100, 105, 97, 45, 114, 101, 108, 97, 116, 105, 118, 101, 32, 99, 111, 108, 111, 114, 105, 109, 101, 116, 114, 105, 99>>,
      <<83, 97, 116, 117, 114, 97, 116, 105, 111, 110>>,
      <<73, 67, 67, 45, 97, 98, 115, 111, 108, 117, 116, 101, 32, 99, 111, 108, 111, 114, 105, 109, 101, 116, 114, 105, 99>>>>

NoChoices == <<>>

Field(key, length, type, default_bytes, choices, hidden) ==
    [key |-> key, length |-> length, type |-> type,
     default_hex |-> bytes_hex_upper(default_bytes), choices |-> choices,
     hidden |-> hidden]

HEADER_FIELDS ==
    << Field("size", 4, "size", <<0, 0, 3, 44>>, NoChoices, FALSE),
       Field("cmm_type", 4, "sig", <<83, 73, 67, 67>>, NoChoices, FALSE),
       Field("version", 4, "version", <<4, 64, 0, 0>>, NoChoices, FALSE),
       Field("device_class", 4, "choice", <<109, 110, 116, 114>>, DEVICE_CLASSES, FALSE),
       Field("color_space", 4, "choice", <<82, 71, 66, 32>>, COLOR_SPACES, FALSE),
       Field("pcs", 4, "choice", <<88, 89, 90, 32>>, PCS_CHOICES, FALSE),
       Field("date_time", 12, "datetime-fixed",
             <<7, 233, 0, 12, 0, 4, 0, 16, 0, 47, 0, 16>>, NoChoices, FALSE),
       Field("acsp", 4, "sig-fixed", <<97, 99, 115, 112>>, NoChoices, FALSE),
       Field("platform", 4, "choice", <<77, 83, 70, 84>>, PLATFORM_CHOICES, FALSE),
       Field("flags", 4, "flags", <<0, 0, 0, 0>>, NoChoices, FALSE),
       Field("manufacturer", 4, "sig-limited", <<0, 0, 0, 0>>, NoChoices, FALSE),
       Field("model", 4, "sig-limited", <<0, 0, 0, 0>>, NoChoices, FALSE),
       Field("attributes", 8, "attributes", <<0, 0, 0, 0, 0, 0, 0, 1>>, NoChoices, FALSE),
       Field("rendering_intent", 4, "intent", <<0, 0, 0, 1>>, NoChoices, FALSE),
       Field("illuminant", 12, "illuminant",
             <<0, 0, 246, 214, 0, 1, 0, 0, 0, 0, 211, 45>>, NoChoices, FALSE),
       Field("creator", 4, "sig-limited", <<77, 83, 70, 84>>, NoChoices, FALSE),
       Field("profile_id", 16, "profile_id", Repeat(0, 16), NoChoices, FALSE),
       Field("reserved", 28, "hex", Repeat(0, 28), NoChoices, TRUE) >>

HeaderKeys == {HEADER_FIELDS[i].key : i \in 1..Len(HEADER_FIELDS)}

VisibleKeys == {HEADER_FIELDS[i].key : i \in {j \in 1..Len(HEADER_FIELDS) :
                                              ~HEADER_FIELDS[j].hidden}}

FieldIndex(key) == CHOOSE i \in 1..Len(HEADER_FIELDS) : HEADER_FIELDS[i].key = key

FieldOf(key) == HEADER_FIELDS[FieldIndex(key)]

FieldStart(i) ==
    \* byte position of field i: the lengths of the fields before it
    SumSeq([j \in 1..(i - 1) |-> HEADER_FIELDS[j].length])

ChoiceGet(choices, sig, default) ==
    \* dict.get(sig, default)
    IF \E i \in 1..Len(choices) : choices[i][1] = sig
    THEN choices[CHOOSE i \in 1..Len(choices) : choices[i][1] = sig][2]
    ELSE default

----------------------------------------------------------------------------
(* Field codecs *)

Raise(msg) == [ok |-> FALSE, err |-> msg]

Ok(v) == [ok |-> TRUE, val |-> v]

hex_to_sig(hex_str) ==
    \* bytes.fromhex(hex_str[:8]).decode("ascii"), else the uppercase hex
    LET bytes_val == bytes_fromhex(Slice(hex_str, 0, 8)).val
    IN  IF \A i \in 1..Len(bytes_val) : bytes_val[i] < 128
        THEN bytes_val
        ELSE bytes_hex_upper(bytes_val)

sig_to_hex_NoLength(sig) ==
    IF \E i \in 1..Len(sig) : sig[i] > 127 THEN Raise("Signature must be ASCII.")
    ELSE Ok(bytes_hex_upper(sig))

sig_to_hex(sig) ==
    IF Len(sig) # 4 THEN Raise("Signature must be exactly 4 characters.")
    ELSE IF \E i \in 1..Len(sig) : sig[i] > 127 THEN Raise("Signature must be ASCII.")
    ELSE Ok(bytes_hex_upper(sig))

version_nibbles(hex_str) ==
    \* the digits of int(hex_str, 16) that hold bits 16 to 31
    SubSeq(zfill(hex_str, 8), Len(zfill(hex_str, 8)) - 7, Len(zfill(hex_str, 8)) - 4)

hex_to_version_DropBugfix(hex_str) ==
    DecText(int_hex(SubSeq(version_nibbles(hex_str), 1, 2))) \o <<46>>
    \o DecText(HexVal(version_nibbles(hex_str)[3]))

hex_to_version(hex_str) ==
    \* major = (value >> 24) & 0xFF, minor = (value >> 20) & 0x0F,
    \* bugfix = (value >> 16) & 0x0F, read from the digits of the value
    LET major == int_hex(SubSeq(version_nibbles(hex_str), 1, 2))
        minor == HexVal(version_nibbles(hex_str)[3])
        bugfix == HexVal(version_nibbles(hex_str)[4])
    IN  DecText(major) \o <<46>> \o DecText(minor) \o
        (IF bugfix # 0 THEN DecText(bugfix) ELSE <<>>)

version_to_hex(text) ==
    \* re.match(r"^(\d+)(?:\.(\d)(\d)?)?$", text.strip())
    LET t == strip(text)
        n == DigitPrefixLen(t)
        rest == Slice(t, n, Len(t))
        matches == /\ n >= 1
                   /\ \/ rest = <<>>
                      \/ /\ Len(rest) \in {2, 3}
                         /\ rest[1] = 46
                         /\ \A i \in 2..Len(rest) : IsDigit(rest[i])
        major == DecValue(SubSeq(t, 1, n))
        minor == IF Len(rest) >= 2 THEN rest[2] - 48 ELSE 0
        bugfix == IF Len(rest) >= 3 THEN rest[3] - 48 ELSE 0
    IN  IF ~matches THEN Raise("Version must be like 4.4 or 4.31")
        ELSE IF major > 255 THEN Raise("Value does not fit")
        \* (major << 24) | (minor << 20) | (bugfix << 16) written digit by digit
        ELSE Ok(HexDigitsOf(major, 2) \o HexDigitsOf(minor, 1) \o
                HexDigitsOf(bugfix, 1) \o <<48, 48, 48, 48>>)

DecPad(n, width) == zfill(DecText(n), width)

datetime_text(parts) ==
    \* "%Y-%m-%d %H:%M:%S"
    DecPad(parts[1], 4) \o <<45>> \o DecPad(parts[2], 2) \o <<45>> \o DecPad(parts[3], 2)
    \o <<32>> \o DecPad(parts[4], 2) \o <<58>> \o DecPad(parts[5], 2) \o <<58>>
    \o DecPad(parts[6], 2)

hex_to_datetime_text(hex_str) ==
    \* both branches print the six 16-bit parts as digit groups
    datetime_text([i \in 1..6 |-> int_hex(SubSeq(hex_str, 4 * i - 3, 4 * i))])

datetime_text_to_hex(text) ==
    \* strptime(text.strip(), "%Y-%m-%d %H:%M:%S") of a well-formed text
    LET t == strip(text)
        parts == <<DecValue(SubSeq(t, 1, 4)), DecValue(SubSeq(t, 6, 7)),
                   DecValue(SubSeq(t, 9, 10)), DecValue(SubSeq(t, 12, 13)),
                   DecValue(SubSeq(t, 15, 16)), DecValue(SubSeq(t, 18, 19))>>
    IN  IF Len(t) # 19 THEN Raise("Date must be YYYY-MM-DD HH:MM:SS")
        ELSE Ok(Flatten([i \in 1..6 |-> int_to_hex(parts[i], 2).val]))

unpack_i32(b) ==
    \* struct.unpack(">i", b)
    (IF b[1] >= 128 THEN b[1] - 256 ELSE b[1]) * 16777216
    + b[2] * 65536 + b[3] * 256 + b[4]

pack_i32(v) ==
    \* struct.pack(">i", v) for v in the signed 32-bit range
    LET hi == v \div 16777216      \* floor division: -128..127
        lo == v % 16777216
    IN  <<IF hi < 0 THEN hi + 256 ELSE hi, lo \div 65536, (lo \div 256) % 256, lo % 256>>

RoundHalfEven(num, den) ==
    \* round(num / den) for den > 0, ties to the even integer
    LET q == num \div den
        r == num % den
    IN  IF 2 * r < den THEN q
        ELSE IF 2 * r > den THEN q + 1
        ELSE IF q % 2 = 0 THEN q ELSE q + 1

to_s15fixed16(value) ==
    \* int(round(value * 65536)) for the decimal value.num / 10^value.places;
    \* 65536 / 10^places is reduced by 2^places so that products stay small.
    \* A value that from_s15fixed16 returned, value.num / 65536, gives value.num.
    IF "den" \in DOMAIN value THEN value.num
    ELSE LET den == 5 ^ value.places
             mul == 2 ^ (16 - value.places)
             q == value.num \div (10 ^ value.places)
             r == value.num % (10 ^ value.places)
         IN  q * 65536 + RoundHalfEven(r * mul, den)

halves(v) ==
    \* a Python integer as 65536 * hi + lo, which also holds the words from
    \* 2^31 to 2^32 - 1
    [hi |-> v \div 65536, lo |-> v % 65536]

from_s15fixed16_OnesComplement(raw) ==
    \* -(~raw & 0xFFFFFFFF) in place of the two's complement
    [num |-> IF (raw.hi % 65536) >= 32768
             THEN ((raw.hi % 65536) - 65536) * 65536 + raw.lo + 1
             ELSE raw.hi * 65536 + raw.lo,
     den |-> 65536]

from_s15fixed16(raw) ==
    \* if raw & 0x80000000: raw = -((~raw + 1) & 0xFFFFFFFF); raw / 65536.0
    [num |-> IF (raw.hi % 65536) >= 32768
             THEN ((raw.hi % 65536) - 65536) * 65536 + raw.lo
             ELSE raw.hi * 65536 + raw.lo,
     den |-> 65536]

format_f(x, places) ==
    \* f"{x:.<places>f}" for x = x.num / 65536:
    \* x.num * 10^places / 65536 = x.num * 5^places / 2^(16 - places)
    LET neg == x.num < 0
        mag == IF neg THEN 0 - x.num ELSE x.num
        den == 2 ^ (16 - places)
        scaled == (mag \div den) * (5 ^ places) + RoundHalfEven((mag % den) * (5 ^ places), den)
        whole == scaled \div (10 ^ places)
        frac == scaled % (10 ^ places)
    IN  (IF neg THEN <<45>> ELSE <<>>) \o DecText(whole) \o <<46>> \o DecPad(frac, places)

float_of(neg, body, n) ==
    \* the value of [-]body, whose first n characters are its leading digits
    IF n < 1 THEN Raise("could not convert string to float")
    ELSE IF n = Len(body)
    THEN Ok([num |-> (IF neg THEN -1 ELSE 1) * DecValue(body), places |-> 0])
    ELSE IF body[n + 1] # 46 \/ \E i \in (n + 2)..Len(body) : ~IsDigit(body[i])
    THEN Raise("could not convert string to float")
    ELSE Ok([num |-> (IF neg THEN -1 ELSE 1)
                         * DecValue(SubSeq(body, 1, n) \o SubSeq(body, n + 2, Len(body))),
             places |-> Len(body) - n - 1])

float_unsigned(neg, body) == float_of(neg, body, DigitPrefixLen(body))

float_stripped(t) ==
    IF t # <<>> /\ t[1] = 45 THEN float_unsigned(TRUE, Tail(t)) ELSE float_unsigned(FALSE, t)

parse_float(text) ==
    \* float(text) for a decimal text [-]digits[.digits]; anything else raises
    float_stripped(strip(text))

hex_to_xyz_components(hex_str) ==
    IF Len(hex_str) < 24 THEN Raise("XYZ needs 12 bytes")
    ELSE LET b == bytes_fromhex(Slice(hex_str, 0, 24)).val
         IN  Ok([i \in 1..3 |-> from_s15fixed16(halves(unpack_i32(SubSeq(b, 4 * i - 3, 4 * i))))])

FixedFits(value) ==
    \* whether round(value * 65536) is in the range of struct's ">i"; a value
    \* that from_s15fixed16 returned always is
    IF "den" \in DOMAIN value THEN TRUE
    ELSE LET q == value.num \div (10 ^ value.places)
             up == RoundHalfEven((value.num % (10 ^ value.places)) * (2 ^ (16 - value.places)),
                                 5 ^ value.places)
         IN  \/ q \in -32768..32766
             \/ q = 32767 /\ up < 65536
             \/ q = -32769 /\ up = 65536

xyz_components_to_hex(x, y, z) ==
    IF ~(FixedFits(x) /\ FixedFits(y) /\ FixedFits(z))
    THEN Raise("struct.error: argument out of range")
    ELSE LET fixed == <<to_s15fixed16(x), to_s15fixed16(y), to_s15fixed16(z)>>
         IN  Ok(bytes_hex_upper(pack_i32(fixed[1]) \o pack_i32(fixed[2])
                                \o pack_i32(fixed[3])))

txt_Embedded == <<69, 109, 98, 101, 100, 100, 101, 100>>
txt_NotEmbedded == <<78, 111, 116, 32, 101, 109, 98, 101, 100, 100, 101, 100>>
txt_Independent == <<73, 110, 100, 101, 112, 101, 110, 100, 101, 110, 116>>
txt_NotIndependent == <<78, 111, 116, 32, 105, 110, 100, 101, 112, 101, 110, 100, 101, 110, 116>>

decode_flags_Bit1Direct(hex_str) ==
    <<IF int_hex(hex_str) % 2 = 1 THEN txt_Embedded ELSE txt_NotEmbedded,
      IF (int_hex(hex_str) \div 2) % 2 = 1 THEN txt_Independent ELSE txt_NotIndependent>>

decode_flags(hex_str) ==
    LET val == int_hex(hex_str)
    IN  <<IF val % 2 = 1 THEN txt_Embedded ELSE txt_NotEmbedded,
          IF (val \div 2) % 2 = 0 THEN txt_Independent ELSE txt_NotIndependent>>

encode_flags(embedded, independent) ==
    LET emb_txt == lower(strip(embedded))
        indep_txt == lower(strip(independent))
        bit0 == IF startswith(emb_txt, <<101, 109, 98, 101, 100>>) THEN 1 ELSE 0
        bit1 == IF startswith(indep_txt, <<110, 111, 116>>) THEN 2 ELSE 0
    IN  int_to_hex(bit0 + bit1, 4)

txt_Reflective == <<82, 101, 102, 108, 101, 99, 116, 105, 118, 101>>
txt_Transparency == <<84, 114, 97, 110, 115, 112, 97, 114, 101, 110, 99, 121>>
txt_Glossy == <<71, 108, 111, 115, 115, 121>>
txt_Matte == <<77, 97, 116, 116, 101>>
txt_Positive == <<80, 111, 115, 105, 116, 105, 118, 101>>
txt_Negative == <<78, 101, 103, 97, 116, 105, 118, 101>>
txt_Color == <<67, 111, 108, 111, 114>>
txt_BlackWhite == <<66, 108, 97, 99, 107, 32, 38, 32, 87, 104, 105, 116, 101>>

decode_attributes(hex_str) ==
    LET val == int_hex(hex_str)
    IN  <<IF val % 2 = 0 THEN txt_Reflective ELSE txt_Transparency,
          IF (val \div 2) % 2 = 0 THEN txt_Glossy ELSE txt_Matte,
          IF (val \div 4) % 2 = 0 THEN txt_Positive ELSE txt_Negative,
          IF (val \div 8) % 2 = 0 THEN txt_Color ELSE txt_BlackWhite>>

encode_attributes(reflective, gloss, polarity, color) ==
    LET b0 == IF startswith(lower(strip(reflective)), <<116, 114, 97, 110, 115>>) THEN 1 ELSE 0
        b1 == IF startswith(lower(strip(gloss)), <<109, 97, 116, 116, 101>>) THEN 2 ELSE 0
        b2 == IF startswith(lower(strip(polarity)), <<110, 101, 103>>) THEN 4 ELSE 0
        b3 == IF startswith(lower(strip(color)), <<98, 108, 97, 99, 107>>) THEN 8 ELSE 0
    IN  int_to_hex(b0 + b1 + b2 + b3, 8)

txt_Unknown == <<85, 110, 107, 110, 111, 119, 110>>

intent_to_hex(text, length) ==
    \* human_to_hex, t == "intent"
    LET lead == lstrip(text)
        n == DigitPrefixLen(lead)
        named == {k \in 0..3 : lower(RENDERING_INTENTS[k + 1]) = lower(text)}
    IN  IF n >= 1
        THEN (IF DecValue(SubSeq(lead, 1, n)) \in 0..3
              THEN int_to_hex(DecValue(SubSeq(lead, 1, n)), length)
              ELSE Raise("Rendering intent must be 0-3"))
        ELSE IF named = {} THEN Raise("Rendering intent must be 0-3")
        ELSE int_to_hex(CHOOSE k \in named : \A j \in named : k <= j, length)

human_to_hex(field, text) ==
    LET t == field.type
        length == field.length
    IN  IF t = "hex"
        THEN Ok(Slice(zfill(upper(clean_hex(text)), length * 2), 0, length * 2))
        ELSE IF t \in {"sig", "sig-fixed"}
        THEN sig_to_hex(Slice(ljust(strip(text), 4, 32), 0, 4))
        ELSE IF t = "sig-limited"
        THEN LET cleaned == rstrip(text)
             IN  IF Len(cleaned) > 4 THEN Raise("Field must be 4 characters or fewer.")
                 ELSE IF cleaned = <<>> THEN Ok(<<48, 48, 48, 48, 48, 48, 48, 48>>)
                 ELSE sig_to_hex(ljust(cleaned, 4, 32))
        ELSE IF t = "choice"
        THEN IF startswith(text, <<48, 48, 48, 48>>)
             THEN Ok(<<48, 48, 48, 48, 48, 48, 48, 48>>)
             ELSE sig_to_hex(Slice(text, 0, 4))
        ELSE IF t = "version" THEN version_to_hex(text)
        ELSE IF t = "intent" THEN intent_to_hex(text, length)
        ELSE Raise("Unsupported field type")

hex_to_human(field, hex_str) ==
    LET t == field.type
    IN  IF t = "hex" THEN upper(hex_str)
        ELSE IF t \in {"sig", "sig-fixed", "choice", "sig-limited"} THEN hex_to_sig(hex_str)
        ELSE IF t = "version" THEN hex_to_version(hex_str)
        ELSE IF t = "intent"
        THEN LET val == int_hex(hex_str)
             IN  IF val \in 0..3 THEN RENDERING_INTENTS[val + 1] ELSE txt_Unknown
        ELSE hex_str

normalize_hex_length(field, hex_str) ==
    LET cleaned == upper(clean_hex(hex_str))
        required == field.length * 2
    IN  Slice(ljust(cleaned, required, 48), 0, required)

----------------------------------------------------------------------------
(* Header state: render_header_fields, collect_header_hex, build_header_bytes *)

sep_dash == <<32, 45, 32>>

render_field(field, hex_value, mode) ==
    \* the value given to the widget variable(s) of one visible field
    LET t == field.type
    IN  IF t = "choice" /\ mode = "human"
        THEN IF hex_value = <<48, 48, 48, 48, 48, 48, 48, 48>>
             THEN <<48, 48, 48, 48>> \o sep_dash
                  \o ChoiceGet(field.choices, <<48, 48, 48, 48>>,
                               <<69, 109, 112, 116, 121, 32, 40, 122, 101, 114, 111, 41>>)
             ELSE hex_to_sig(hex_value) \o sep_dash
                  \o ChoiceGet(field.choices, hex_to_sig(hex_value),
                               <<85, 110, 107, 110, 111, 119, 110, 32, 99, 104, 111, 105, 99, 101>>)
        ELSE IF t = "size"
        THEN IF mode = "human" THEN DecText(int_hex(hex_value)) ELSE hex_value
        ELSE IF t = "datetime-fixed"
        THEN IF mode = "human" THEN hex_to_datetime_text(hex_value) ELSE hex_value
        ELSE IF t = "flags" /\ mode = "human" THEN decode_flags(hex_value)
        ELSE IF t = "attributes" /\ mode = "human" THEN decode_attributes(hex_value)
        ELSE IF t = "illuminant" /\ mode = "human"
        THEN LET xyz == hex_to_xyz_components(hex_value).val
             IN  <<format_f(xyz[1], 6), format_f(xyz[2], 6), format_f(xyz[3], 6)>>
        ELSE IF mode = "hex" THEN hex_value
        ELSE hex_to_human(field, hex_value)

render_header_fields(values_hex, mode) ==
    [key \in VisibleKeys |-> render_field(FieldOf(key), values_hex[key], mode)]

floats_to_hex(parsed) ==
    \* xyz_components_to_hex of three parsed entries, or the raise of float()
    IF \E i \in 1..3 : ~parsed[i].ok
    THEN Raise("could not convert string to float")
    ELSE xyz_components_to_hex(parsed[1].val, parsed[2].val, parsed[3].val)

collect_field(field, values_hex, var, mode) ==
    \* one iteration of the loop of collect_header_hex; var is the widget
    \* variable (or tuple of variables) of the field
    IF field.hidden THEN Ok(values_hex[field.key])
    ELSE IF field.type = "flags" /\ mode = "human" THEN encode_flags(var[1], var[2])
    ELSE IF field.type = "attributes" /\ mode = "human"
    THEN encode_attributes(var[1], var[2], var[3], var[4])
    ELSE IF field.type = "illuminant" /\ mode = "human"
    THEN floats_to_hex([i \in 1..3 |-> parse_float(var[i])])
    ELSE IF field.type \in {"size", "datetime-fixed", "profile_id"} /\ mode = "human"
    THEN Ok(values_hex[field.key])
    ELSE IF mode = "human" THEN human_to_hex(field, var)
    ELSE Ok(normalize_hex_length(field, var))

collected_map(per) ==
    \* the first raise of the loop, or the map that the loop has filled
    IF \E i \in 1..Len(per) : ~per[i].ok
    THEN per[CHOOSE i \in 1..Len(per) : ~per[i].ok /\ \A j \in 1..(i - 1) : per[j].ok]
    ELSE Ok([key \in HeaderKeys |-> per[FieldIndex(key)].val])

collect_header_hex(values_hex, hvars, mode) ==
    collected_map(<<>> \o [i \in 1..Len(HEADER_FIELDS) |->
        collect_field(HEADER_FIELDS[i], values_hex,
                      IF HEADER_FIELDS[i].hidden THEN <<>> ELSE hvars[HEADER_FIELDS[i].key],
                      mode)])

field_bytes_AsGiven(field, hex_value) ==
    \* neither cut to the field length nor filled up to it
    bytes_fromhex(IF field.type = "hex" THEN clean_hex(hex_value) ELSE hex_value)

field_bytes(field, hex_value) ==
    \* one iteration of the loop of build_header_bytes
    LET cleaned == IF field.type = "hex" THEN clean_hex(hex_value) ELSE hex_value
        raw == bytes_fromhex(Slice(cleaned, 0, field.length * 2))
    IN  IF ~raw.ok THEN raw
        ELSE Ok(ljust(raw.val, field.length, 0))

header_of_length(header_bytes) ==
    IF Len(header_bytes) # 128 THEN Raise("Header must be 128 bytes")
    ELSE Ok(header_bytes)

header_joined(per) ==
    IF \E i \in 1..Len(per) : ~per[i].ok
    THEN Raise("ValueError: non-hexadecimal number")
    ELSE header_of_length(Flatten([i \in 1..Len(per) |-> per[i].val]))

build_header_bytes(values_hex, size_override) ==
    IF ~FitsBytes(size_override, 4) THEN int_to_hex(size_override, 4)
    ELSE header_joined(<<>> \o [i \in 1..Len(HEADER_FIELDS) |->
            field_bytes(HEADER_FIELDS[i],
                        IF HEADER_FIELDS[i].key = "size"
                        THEN int_to_hex(size_override, 4).val
                        ELSE values_hex[HEADER_FIELDS[i].key])])

----------------------------------------------------------------------------
(* Tag type codecs *)

parse_xyz(data) ==
    IF Len(data) < 20 \/ SubSeq(data, 1, 4) # <<88, 89, 90, 32>>
    THEN Raise("Not an XYZ type tag")
    ELSE Ok([i \in 1..3 |->
                from_s15fixed16(halves(unpack_i32(SubSeq(data, 4 * i + 5, 4 * i + 8))))])

build_xyz_bytes(x, y, z) ==
    \* struct.pack(">4s4xiii", b"XYZ ", ...), which raises outside the range of "i"
    IF ~(FixedFits(x) /\ FixedFits(y) /\ FixedFits(z))
    THEN Raise("struct.error: argument out of range")
    ELSE Ok(<<88, 89, 90, 32, 0, 0, 0, 0>> \o pack_i32(to_s15fixed16(x))
            \o pack_i32(to_s15fixed16(y)) \o pack_i32(to_s15fixed16(z)))

matrix_value(text) ==
    \* try: float(var.get()) except: 0.0
    IF parse_float(text).ok THEN parse_float(text).val ELSE [num |-> 0, places |-> 0]

held_lut_used_AnyLength(lut_values, count) ==
    \* held_lut_used without the comparison of the channel lengths with count
    /\ lut_values # <<>>
    /\ Len(lut_values) = 3
    /\ \A c \in 1..3 : Len(lut_values[c]) >= count

held_lut_used(lut_values, count) ==
    \* the held LUT is encoded only as three channels of count samples
    /\ lut_values # <<>>
    /\ Len(lut_values) = 3
    /\ \A c \in 1..3 : Len(lut_values[c]) = count

identity_lut(count) ==
    \* to_s15fixed16(i / (count - 1 if count > 1 else 1)) for i in range(count)
    [i \in 1..count |-> RoundHalfEven((i - 1) * 65536, IF count > 1 THEN count - 1 ELSE 1)]

lut_block(ints) ==
    \* b"sf32" + b"\x00" * 4 + struct.pack(">" + "i" * count, *ints)
    <<115, 102, 51, 50, 0, 0, 0, 0>> \o Flatten([i \in 1..Len(ints) |-> pack_i32(ints[i])])

mhc2_lut_blocks(lut_values, count) ==
    IF count = 0 THEN <<>>
    ELSE IF held_lut_used(lut_values, count)
    THEN [c \in 1..3 |-> lut_block([i \in 1..count |-> to_s15fixed16(lut_values[c][i])])]
    ELSE [c \in 1..3 |-> lut_block(identity_lut(count))]

mhc2_packable(min_nits, peak_nits, matrix_vars, lut_values, count) ==
    \* every struct.pack(">i", ...) of the function gets a value in its range
    /\ FixedFits(min_nits)
    /\ FixedFits(peak_nits)
    /\ \A k \in 1..Len(matrix_vars) : FixedFits(matrix_value(matrix_vars[k]))
    /\ (count > 0 /\ held_lut_used(lut_values, count)) =>
          \A c \in 1..3 : \A i \in 1..count : FixedFits(lut_values[c][i])

mhc2_header_BodyOffsets(min_nits, peak_nits, count, block_len) ==
    \* mhc2_header with the offsets counted from the end of the header
    <<77, 72, 67, 50>> \o pack_u32(0) \o pack_u32(count)
    \o pack_i32(to_s15fixed16(min_nits)) \o pack_i32(to_s15fixed16(peak_nits))
    \o pack_u32(0)
    \o pack_u32(IF count > 0 THEN 48 ELSE 0)
    \o pack_u32(IF count > 0 THEN 48 + block_len ELSE 0)
    \o pack_u32(IF count > 0 THEN 48 + 2 * block_len ELSE 0)

mhc2_header(min_nits, peak_nits, count, block_len) ==
    \* struct.pack(">4sI I i i I I I I", b"MHC2", 0, count, ..., matrix_off_new, ...)
    <<77, 72, 67, 50>> \o pack_u32(0) \o pack_u32(count)
    \o pack_i32(to_s15fixed16(min_nits)) \o pack_i32(to_s15fixed16(peak_nits))
    \o pack_u32(36)
    \o pack_u32(IF count > 0 THEN 84 ELSE 0)
    \o pack_u32(IF count > 0 THEN 84 + block_len ELSE 0)
    \o pack_u32(IF count > 0 THEN 84 + 2 * block_len ELSE 0)

mhc2_joined(min_nits, peak_nits, matrix_vars, count, blocks) ==
    mhc2_header(min_nits, peak_nits, count, IF count > 0 THEN Len(blocks[1]) ELSE 0)
    \o Flatten([k \in 1..Len(matrix_vars) |->
                   pack_i32(to_s15fixed16(matrix_value(matrix_vars[k])))])
    \o Flatten(blocks)

build_mhc2_bytes(min_nits, peak_nits, lut_entries, matrix_vars, lut_values) ==
    \* matrix_vars: the texts of self.mhc2_matrix_vars, row by row;
    \* lut_values: self.mhc2_lut_values, <<>> when none is held
    IF ~mhc2_packable(min_nits, peak_nits, matrix_vars, lut_values,
                      IF lut_entries > 0 THEN lut_entries ELSE 0)
    THEN Raise("struct.error: argument out of range")
    ELSE Ok(mhc2_joined(min_nits, peak_nits, matrix_vars,
                        IF lut_entries > 0 THEN lut_entries ELSE 0,
                        mhc2_lut_blocks(lut_values, IF lut_entries > 0 THEN lut_entries ELSE 0)))

unpack_u32(b) ==
    \* struct.unpack(">I", b); model files keep the value below 2^31
    b[1] * 16777216 + b[2] * 65536 + b[3] * 256 + b[4]

decode_ascii_replace(b) ==
    \* bytes.decode("ascii", errors="replace"): U+FFFD for every byte >= 128
    [i \in 1..Len(b) |-> IF b[i] < 128 THEN b[i] ELSE 65533]

fixed_at(data, at) ==
    \* from_s15fixed16(struct.unpack_from(">i", data, at)[0])
    from_s15fixed16(halves(unpack_i32(SubSeq(data, at + 1, at + 4))))

mhc2_matrix(data, matrix_off) ==
    \* matrix_vals: 12 numbers at matrix_off, or None (here <<>>)
    IF matrix_off # 0 /\ matrix_off + 48 <= Len(data)
    THEN [k \in 1..12 |-> fixed_at(data, matrix_off + 4 * (k - 1))]
    ELSE <<>>

mhc2_channel_AnySignature(data, off, count) ==
    \* mhc2_channel without the test of the nested signature
    IF off # 0 /\ off + 8 + count * 4 <= Len(data)
    THEN [i \in 1..count |-> fixed_at(data, off + 8 + 4 * (i - 1))]
    ELSE <<>>

mhc2_channel(data, off, count) ==
    \* one element of lut_values: the samples of the block at off, or []
    IF off # 0 /\ off + 8 + count * 4 <= Len(data)
       /\ Slice(data, off, off + 4) = <<115, 102, 51, 50>>
    THEN [i \in 1..count |-> fixed_at(data, off + 8 + 4 * (i - 1))]
    ELSE <<>>

max_full_lumi(tag_list) ==
    \* "-" without a lumi tag, the Y of the first lumi tag as "%.6f", or "N/A"
    IF ~\E i \in 1..Len(tag_list) : tag_list[i].signature = <<108, 117, 109, 105>>
    THEN <<45>>
    ELSE IF data_bytes(tag_list[CHOOSE i \in 1..Len(tag_list) :
                           /\ tag_list[i].signature = <<108, 117, 109, 105>>
                           /\ \A j \in 1..(i - 1) :
                                 tag_list[j].signature # <<108, 117, 109, 105>>]).ok
    THEN IF parse_xyz(data_bytes(tag_list[CHOOSE i \in 1..Len(tag_list) :
                           /\ tag_list[i].signature = <<108, 117, 109, 105>>
                           /\ \A j \in 1..(i - 1) :
                                 tag_list[j].signature # <<108, 117, 109, 105>>]).val).ok
         THEN format_f(parse_xyz(data_bytes(tag_list[CHOOSE i \in 1..Len(tag_list) :
                           /\ tag_list[i].signature = <<108, 117, 109, 105>>
                           /\ \A j \in 1..(i - 1) :
                                 tag_list[j].signature # <<108, 117, 109, 105>>]).val).val[2], 6)
         ELSE <<78, 47, 65>>
    ELSE <<78, 47, 65>>

parse_mhc2(data, tag_list) ==
    \* tag_list: self.tags; None is <<>> for "matrix" and for "lut_values"
    IF Len(data) < 36 \/ Slice(data, 0, 4) # <<77, 72, 67, 50>>
    THEN Raise("Not an MHC2 tag")
    ELSE Ok([count |-> unpack_u32(SubSeq(data, 9, 12)),
             min_nits |-> fixed_at(data, 12),
             peak_nits |-> fixed_at(data, 16),
             matrix_off |-> unpack_u32(SubSeq(data, 21, 24)),
             lut_r_off |-> unpack_u32(SubSeq(data, 25, 28)),
             lut_g_off |-> unpack_u32(SubSeq(data, 29, 32)),
             lut_b_off |-> unpack_u32(SubSeq(data, 33, 36)),
             lut_entries |-> unpack_u32(SubSeq(data, 9, 12)),
             max_full_lumi |-> max_full_lumi(tag_list),
             matrix |-> mhc2_matrix(data, unpack_u32(SubSeq(data, 21, 24))),
             lut_values |-> IF unpack_u32(SubSeq(data, 9, 12)) > 0
                            THEN [c \in 1..3 |->
                                     mhc2_channel(data,
                                                  unpack_u32(SubSeq(data, 21 + 4 * c, 24 + 4 * c)),
                                                  unpack_u32(SubSeq(data, 9, 12)))]
                            ELSE <<>>,
             raw |-> data])

render_mhc2_workspace(parsed) ==
    \* the texts that the MHC2 widgets show for a parsed tag, and
    \* self.mhc2_lut_values
    [min |-> format_f(parsed.min_nits, 4),
     peak |-> format_f(parsed.peak_nits, 4),
     entries |-> DecText(parsed.lut_entries),
     matrix_vars |-> [k \in 1..12 |->
                         format_f(IF parsed.matrix # <<>> THEN parsed.matrix[k]
                                  ELSE [num |-> IF k \in {1, 6, 11} THEN 65536 ELSE 0,
                                        den |-> 65536], 6)],
     lut_values |-> parsed.lut_values]

rebuild_mhc2_from_ui(fields) ==
    \* apply_tag_changes for an MHC2 tag in human mode: float() and int() of
    \* the entries, then build_mhc2_bytes with the fields as they are held
    build_mhc2_bytes(parse_float(fields.min).val, parse_float(fields.peak).val,
                     DecValue(fields.entries), fields.matrix_vars, fields.lut_values)

reencoded_mhc2(data, tag_list) ==
    \* an MHC2 tag is selected and "Apply changes" is pressed with no edit
    IF ~parse_mhc2(data, tag_list).ok THEN parse_mhc2(data, tag_list)
    ELSE rebuild_mhc2_from_ui(render_mhc2_workspace(parse_mhc2(data, tag_list).val))

type_mluc == <<109, 108, 117, 99>>

encode_ascii_replace(s) ==
    \* str.encode("ascii", errors="replace"): "?" for every character above 127
    [i \in 1..Len(s) |-> IF s[i] < 128 THEN s[i] ELSE 63]

IsSurrogate(c) == c \in 55296..57343

utf16be_units(c) ==
    \* one character as UTF-16BE: a code unit, or a surrogate pair above U+FFFF
    IF c < 65536
    THEN <<c \div 256, c % 256>>
    ELSE <<(55296 + ((c - 65536) \div 1024)) \div 256,
           (55296 + ((c - 65536) \div 1024)) % 256,
           (56320 + ((c - 65536) % 1024)) \div 256,
           (56320 + ((c - 65536) % 1024)) % 256>>

encode_utf16be(text) ==
    \* str.encode("utf-16be"): surrogate code points cannot be encoded
    IF \E i \in 1..Len(text) : IsSurrogate(text[i])
    THEN Raise("UnicodeEncodeError")
    ELSE Ok(Flatten([i \in 1..Len(text) |-> utf16be_units(text[i])]))

RECURSIVE decode_utf16be_replace(_)
decode_utf16be_replace(b) ==
    \* bytes.decode("utf-16be", errors="replace"): U+FFFD for an odd last byte,
    \* for a surrogate without its partner and for a pair cut by the end
    IF b = <<>> THEN <<>>
    ELSE IF Len(b) = 1 THEN <<65533>>
    ELSE IF ~IsSurrogate(b[1] * 256 + b[2])
    THEN <<b[1] * 256 + b[2]>> \o decode_utf16be_replace(Slice(b, 2, Len(b)))
    ELSE IF b[1] * 256 + b[2] >= 56320
    THEN <<65533>> \o decode_utf16be_replace(Slice(b, 2, Len(b)))
    ELSE IF Len(b) < 4 THEN <<65533>>
    ELSE IF (b[3] * 256 + b[4]) \in 56320..57343
    THEN <<65536 + (b[1] * 256 + b[2] - 55296) * 1024 + (b[3] * 256 + b[4] - 56320)>>
         \o decode_utf16be_replace(Slice(b, 4, Len(b)))
    ELSE <<65533>> \o decode_utf16be_replace(Slice(b, 2, Len(b)))

mluc_record(data, base, length, offset) ==
    \* the dictionary parse_mluc appends for the table entry at base
    [lang |-> decode_ascii_replace(Slice(data, base, base + 2)),
     country |-> decode_ascii_replace(Slice(data, base + 2, base + 4)),
     text |-> decode_utf16be_replace(Slice(data, offset, offset + length)),
     length |-> length, offset |-> offset]

seq_prepend(rec, rest) ==
    \* records.append / values.append ahead of the rest of the loop, unless it raises
    IF rest.ok THEN Ok(<<rec>> \o rest.val) ELSE rest

words_exceed(offset, length, limit) ==
    \* offset + length > limit for two packed 32-bit words; Python integers do
    \* not wrap, and a word of 2^30 or more is above every length of the model
    \/ offset[1] >= 64
    \/ length[1] >= 64
    \/ unpack_u32(offset) + unpack_u32(length) > limit

RECURSIVE mluc_records_from(_, _, _, _)
mluc_records_from(data, num_recs, rec_size, i) ==
    \* the loop of parse_mluc from record index i on
    IF i >= num_recs THEN Ok(<<>>)
    ELSE IF 16 + i * rec_size + 12 > Len(data) THEN Raise("Record truncated")
    ELSE IF words_exceed(Slice(data, 16 + i * rec_size + 8, 16 + i * rec_size + 12),
                         Slice(data, 16 + i * rec_size + 4, 16 + i * rec_size + 8), Len(data))
    THEN Raise("Record string out of bounds")
    ELSE seq_prepend(mluc_record(data, 16 + i * rec_size,
                                 unpack_u32(Slice(data, 16 + i * rec_size + 4, 16 + i * rec_size + 8)),
                                 unpack_u32(Slice(data, 16 + i * rec_size + 8, 16 + i * rec_size + 12))),
                     mluc_records_from(data, num_recs, rec_size, i + 1))

parse_mluc_RawRecordSize(data) ==
    \* parse_mluc with the record-size field used as it is read
    IF Len(data) < 16 THEN Raise("mluc too small")
    ELSE IF Slice(data, 0, 4) # type_mluc THEN Raise("Tag is not mluc type")
    ELSE mluc_records_from(data, unpack_u32(Slice(data, 8, 12)),
                           unpack_u32(Slice(data, 12, 16)), 0)

parse_mluc(data) ==
    IF Len(data) < 16 THEN Raise("mluc too small")
    ELSE IF Slice(data, 0, 4) # type_mluc THEN Raise("Tag is not mluc type")
    ELSE mluc_records_from(data, unpack_u32(Slice(data, 8, 12)),
                           IF unpack_u32(Slice(data, 12, 16)) >= 12
                           THEN unpack_u32(Slice(data, 12, 16)) ELSE 12,
                           0)

RECURSIVE mluc_layout_from(_, _, _)
mluc_layout_from(records, i, offset) ==
    \* the loop of compute_mluc_layout from record i on, with the running offset
    IF i > Len(records) THEN <<>>
    ELSE <<[length |-> Len(encode_utf16be(records[i].text).val), offset |-> offset]>>
         \o mluc_layout_from(records, i + 1,
                offset + Len(encode_utf16be(records[i].text).val)
                + ((4 - ((offset + Len(encode_utf16be(records[i].text).val)) % 4)) % 4))

compute_mluc_layout_Unpadded(records) ==
    \* compute_mluc_layout with the running offset never padded
    Ok([i \in 1..Len(records) |->
           [length |-> Len(encode_utf16be(records[i].text).val),
            offset |-> 16 + Len(records) * 12
                       + SumSeq([j \in 1..(i - 1) |-> Len(encode_utf16be(records[j].text).val)])]])

compute_mluc_layout(records) ==
    IF \E i \in 1..Len(records) : ~encode_utf16be(records[i].text).ok
    THEN Raise("UnicodeEncodeError")
    ELSE Ok(mluc_layout_from(records, 1, 16 + Len(records) * 12))

mluc_table_entry(rec, meta) ==
    ljust(Slice(encode_ascii_replace(rec.lang), 0, 2), 2, 32)
    \o ljust(Slice(encode_ascii_replace(rec.country), 0, 2), 2, 32)
    \o pack_u32(meta.length) \o pack_u32(meta.offset)

mluc_padded(data) == data \o Repeat(0, (4 - (Len(data) % 4)) % 4)

RECURSIVE mluc_data_from(_, _, _)
mluc_data_from(records, i, data) ==
    \* the bytearray "data" of build_mluc_bytes from record i on
    IF i > Len(records) THEN data
    ELSE mluc_data_from(records, i + 1,
                        mluc_padded(data \o encode_utf16be(records[i].text).val))

build_mluc_bytes(records) ==
    IF ~compute_mluc_layout(records).ok THEN compute_mluc_layout(records)
    ELSE Ok(type_mluc \o pack_u32(0) \o pack_u32(Len(records)) \o pack_u32(12)
            \o Flatten([i \in 1..Len(records) |->
                           mluc_table_entry(records[i], compute_mluc_layout(records).val[i])])
            \o mluc_data_from(records, 1, <<>>))

RECURSIVE rstrip_zero(_)
rstrip_zero(b) ==
    \* bytes.rstrip(b"\x00")
    IF b # <<>> /\ b[Len(b)] = 0 THEN rstrip_zero(SubSeq(b, 1, Len(b) - 1)) ELSE b

parse_text_type(data) ==
    IF Len(data) < 8 \/ Slice(data, 0, 4) # <<116, 101, 120, 116>>
    THEN Raise("Not a textType")
    ELSE Ok(decode_ascii_replace(rstrip_zero(Slice(data, 8, Len(data)))))

build_text_type_Unpadded(content) ==
    \* build_text_type without the loop that fills the last word
    <<116, 101, 120, 116, 0, 0, 0, 0>> \o encode_ascii_replace(content)

build_text_type(content) ==
    \* blob = b"text" + b"\x00" * 4 + payload; while len(blob) % 4: blob += b"\x00"
    <<116, 101, 120, 116, 0, 0, 0, 0>> \o encode_ascii_replace(content)
    \o Repeat(0, (4 - ((8 + Len(content)) % 4)) % 4)

type_curv == <<99, 117, 114, 118>>

unpack_u16_LittleEndian(b) ==
    \* struct.unpack("<H", b)
    b[2] * 256 + b[1]

unpack_u16(b) ==
    \* struct.unpack(">H", b)
    b[1] * 256 + b[2]

pack_u16(value) ==
    \* struct.pack(">H", value) for 0 <= value <= 65535
    <<value \div 256, value % 256>>

RECURSIVE trc_values_from(_, _, _)
trc_values_from(data, count, offset) ==
    \* the loop of parse_trc with count samples still to read at offset
    IF count = 0 THEN Ok(<<>>)
    ELSE IF offset + 2 > Len(data) THEN Raise("TRC data truncated")
    ELSE seq_prepend(unpack_u16(Slice(data, offset, offset + 2)),
                     trc_values_from(data, count - 1, offset + 2))

trc_info(values, count) ==
    \* the dictionary parse_trc returns; gamma is <<>> for None and
    \* <<values[0] / 256.0>> as a fraction otherwise
    [values |-> values,
     gamma |-> IF count = 1 THEN <<[num |-> values[1], den |-> 256]>> ELSE <<>>]

parse_trc(data) ==
    IF Len(data) < 12 \/ Slice(data, 0, 4) # type_curv THEN Raise("Not a curveType")
    ELSE IF unpack_u32(Slice(data, 8, 12)) = 0 THEN Raise("TRC count cannot be zero")
    ELSE IF ~trc_values_from(data, unpack_u32(Slice(data, 8, 12)), 12).ok
    THEN trc_values_from(data, unpack_u32(Slice(data, 8, 12)), 12)
    ELSE Ok(trc_info(trc_values_from(data, unpack_u32(Slice(data, 8, 12)), 12).val,
                     unpack_u32(Slice(data, 8, 12))))

clamp_u16(v) ==
    \* max(0, min(65535, int(v)))
    IF v < 0 THEN 0 ELSE IF v > 65535 THEN 65535 ELSE v

build_trc_bytes_Unclamped(values) ==
    \* build_trc_bytes with the samples packed as they are given
    IF Len(values) = 1
    THEN type_curv \o <<0, 0, 0, 0>> \o pack_u32(1) \o pack_u16(values[1]) \o <<0, 0>>
    ELSE type_curv \o <<0, 0, 0, 0>> \o pack_u32(Len(values))
         \o Flatten([i \in 1..Len(values) |-> pack_u16(values[i])])

build_trc_bytes_NoPad(values) ==
    \* build_trc_bytes without the two bytes that follow a single entry
    type_curv \o <<0, 0, 0, 0>> \o pack_u32(Len(values))
    \o Flatten([i \in 1..Len(values) |-> pack_u16(clamp_u16(values[i]))])

build_trc_bytes(values) ==
    IF Len(values) = 1
    THEN type_curv \o <<0, 0, 0, 0>> \o pack_u32(1) \o pack_u16(clamp_u16(values[1])) \o <<0, 0>>
    ELSE type_curv \o <<0, 0, 0, 0>> \o pack_u32(Len(values))
         \o Flatten([i \in 1..Len(values) |-> pack_u16(clamp_u16(values[i]))])

----------------------------------------------------------------------------
(* Chromaticity *)

\* A float is the fraction num / den in lowest terms with den > 0; the
\* quotients below are exact where Python rounds to the nearest double.

RECURSIVE GCD(_, _)
GCD(a, b) == IF b = 0 THEN a ELSE GCD(b, a % b)

frac(n, d) ==
    \* n / d for d # 0, in lowest terms
    [num |-> (IF d < 0 THEN 0 - n ELSE n)
                 \div GCD(IF n < 0 THEN 0 - n ELSE n, IF d < 0 THEN 0 - d ELSE d),
     den |-> (IF d < 0 THEN 0 - d ELSE d)
                 \div GCD(IF n < 0 THEN 0 - n ELSE n, IF d < 0 THEN 0 - d ELSE d)]

frac_add(a, b) ==
    frac(a.num * (b.den \div GCD(a.den, b.den)) + b.num * (a.den \div GCD(a.den, b.den)),
         a.den * (b.den \div GCD(a.den, b.den)))

frac_neg(a) == [num |-> 0 - a.num, den |-> a.den]

frac_mul(a, b) == frac(a.num * b.num, a.den * b.den)

frac_div(a, b) ==
    \* a / b for b # 0
    frac(a.num * b.den, a.den * b.num)

frac_zero == [num |-> 0, den |-> 1]

frac_one == [num |-> 1, den |-> 1]

xy_to_XYZ_custom(xy, Y) ==
    IF xy[2].num = 0 THEN <<frac_zero, frac_zero, frac_zero>>
    ELSE << frac_div(frac_mul(xy[1], Y), xy[2]),
            Y,
            frac_div(frac_mul(frac_add(frac_add(frac_one, frac_neg(xy[1])), frac_neg(xy[2])), Y),
                     xy[2]) >>

xyY_to_XYZ_custom(xyy) ==
    IF xyy[2].num = 0 THEN <<frac_zero, frac_zero, frac_zero>>
    ELSE << frac_div(frac_mul(xyy[1], xyy[3]), xyy[2]),
            xyy[3],
            frac_div(frac_mul(frac_add(frac_add(frac_one, frac_neg(xyy[1])), frac_neg(xyy[2])),
                              xyy[3]),
                     xyy[2]) >>

XYZ_to_xyY_custom(XYZ) ==
    IF frac_add(frac_add(XYZ[1], XYZ[2]), XYZ[3]).num = 0
    THEN <<frac_zero, frac_zero, frac_zero>>
    ELSE << frac_div(XYZ[1], frac_add(frac_add(XYZ[1], XYZ[2]), XYZ[3])),
            frac_div(XYZ[2], frac_add(frac_add(XYZ[1], XYZ[2]), XYZ[3])),
            XYZ[2] >>

RECURSIVE decimal_steps(_, _, _)
decimal_steps(p, d, k) ==
    \* k more decimal places of the quotient p.s with remainder p.r over d
    IF k = 0 THEN p
    ELSE decimal_steps([s |-> p.s * 10 + ((p.r * 10) \div d), r |-> (p.r * 10) % d], d, k - 1)

rounded_steps(p, d) ==
    \* the last place rounded to the nearest, ties to even
    IF 2 * p.r > d \/ (2 * p.r = d /\ p.s % 2 = 1) THEN p.s + 1 ELSE p.s

format_6f(v, negative) ==
    \* f"{v:.6f}" for the float v.num / v.den; negative: the sign bit of v
    (IF negative THEN <<45>> ELSE <<>>)
    \o DecText(rounded_steps(decimal_steps(
                   [s |-> (IF v.num < 0 THEN 0 - v.num ELSE v.num) \div v.den,
                    r |-> (IF v.num < 0 THEN 0 - v.num ELSE v.num) % v.den], v.den, 6),
                   v.den) \div 1000000)
    \o <<46>>
    \o DecPad(rounded_steps(decimal_steps(
                   [s |-> (IF v.num < 0 THEN 0 - v.num ELSE v.num) \div v.den,
                    r |-> (IF v.num < 0 THEN 0 - v.num ELSE v.num) % v.den], v.den, 6),
                   v.den) % 1000000, 6)

chroma_labels(x, y, total) ==
    \* the texts of xyz_x_chroma and xyz_y_chroma for total # 0: x_chroma is
    \* 0.0 for total <= 0, y_chroma is y / total in every case
    << IF total.num <= 0 THEN format_6f(frac_zero, FALSE)
       ELSE format_6f(frac_div(x, total), x.num < 0),
       format_6f(frac_div(y, total), (y.num < 0) # (total.num < 0)) >>

update_chromaticity_labels(x, y, z) ==
    \* y_chroma = y / total follows the if / else and is computed for every total
    IF frac_add(frac_add(x, y), z).num = 0
    THEN Raise("ZeroDivisionError: float division by zero")
    ELSE Ok(chroma_labels(x, y, frac_add(frac_add(x, y), z)))

xyz_shown(parsed, labels) ==
    IF labels.ok
    THEN Ok([workspace |-> "xyz",
             xyz |-> <<format_f(parsed[1], 6), format_f(parsed[2], 6), format_f(parsed[3], 6)>>,
             chroma |-> labels.val])
    ELSE labels

xyz_parsed(parsed) ==
    xyz_shown(parsed, update_chromaticity_labels(frac(parsed[1].num, parsed[1].den),
                                                 frac(parsed[2].num, parsed[2].den),
                                                 frac(parsed[3].num, parsed[3].den)))

render_xyz_workspace(tag) ==
    \* what the XYZ workspace shows for the tag; the hex workspace after
    \* "Invalid XYZ"; the raise of update_chromaticity_labels is not caught
    IF ~data_bytes(tag).ok THEN Ok([workspace |-> "hex"])
    ELSE IF ~parse_xyz(data_bytes(tag).val).ok THEN Ok([workspace |-> "hex"])
    ELSE xyz_parsed(parse_xyz(data_bytes(tag).val).val)

----------------------------------------------------------------------------
(* Tag library *)

KNOWN_TAG_LIBRARY ==
    \* each entry <<signature, description>>
    <<<<<<65, 50, 66, 48>>, "AToB0 (PCS -> Device)">>,
      <<<<65, 50, 66, 49>>, "AToB1">>,
      <<<<65, 50, 66, 50>>, "AToB2">>,
      <<<<65, 50, 66, 51>>, "AToB3">>,
      <<<<66, 50, 65, 48>>, "BToA0 (Device -> PCS)">>,
      <<<<66, 50, 65, 49>>, "BToA1">>,
      <<<<66, 50, 65, 50>>, "BToA2">>,
      <<<<66, 50, 65, 51>>, "BToA3">>,
      <<<<98, 88, 89, 90>>, "Blue colorant">>,
      <<<<98, 84, 82, 67>>, "Blue tone reproduction curve">>,
      <<<<98, 107, 112, 116>>, "Media black point">>,
      <<<<99, 97, 108, 116>>, "Calibration date/time">>,
      <<<<99, 104, 97, 100>>, "Chromatic adaptation">>,
      <<<<99, 104, 114, 109>>, "Chromaticity">>,
      <<<<99, 108, 114, 111>>, "Colorant order">>,
      <<<<99, 108, 114, 116>>, "Colorant table">>,
      <<<<99, 112, 114, 116>>, "Copyright">>,
      <<<<99, 114, 100, 105>>, "CrdInfo">>,
      <<<<100, 109, 100, 100>>, "Device model description">>,
      <<<<100, 109, 110, 100>>, "Device manufacturer description">>,
      <<<<100, 101, 115, 99>>, "Profile description">>,
      <<<<103, 97, 109, 116>>, "Gamut">>,
      <<<<103, 88, 89, 90>>, "Green colorant">>,
      <<<<103, 84, 82, 67>>, "Green tone reproduction curve">>,
      <<<<107, 84, 82, 67>>, "Black tone reproduction curve">>,
      <<<<108, 117, 109, 105>>, "Luminance">>,
      <<<<109, 101, 97, 115>>, "Measurement">>,
      <<<<109, 108, 117, 99>>, "Multi-localized Unicode">>,
      <<<<109, 109, 111, 100>>, "Make and model">>,
      <<<<77, 83, 67, 65>>, "Microsoft Color Adaptation">>,
      <<<<77, 72, 67, 50>>, "Windows Advanced Color metadata">>,
      <<<<110, 99, 108, 50>>, "Named color 2">>,
      <<<<112, 115, 101, 113>>, "Profile sequence description">>,
      <<<<112, 115, 105, 100>>, "Profile sequence identifier">>,
      <<<<114, 88, 89, 90>>, "Red colorant">>,
      <<<<114, 84, 82, 67>>, "Red tone reproduction curve">>,
      <<<<114, 101, 115, 112>>, "Output response">>,
      <<<<114, 105, 103, 48>>, "Perceptual rendering intent gamut">>,
      <<<<114, 105, 103, 50>>, "ICC-absolute rendering intent gamut">>,
      <<<<115, 99, 114, 100>>, "Screening description">>,
      <<<<115, 99, 114, 110>>, "Screening">>,
      <<<<116, 97, 114, 103>>, "CharTarget">>,
      <<<<116, 101, 99, 104>>, "Technology">>,
      <<<<118, 99, 103, 116>>, "Video card gamma">>,
      <<<<118, 105, 101, 119>>, "Viewing conditions">>,
      <<<<118, 117, 101, 100>>, "Viewing conditions description">>,
      <<<<119, 116, 112, 116>>, "Media white point">>>>

LibraryGet(sig, default) ==
    \* KNOWN_TAG_LIBRARY.get(sig, default)
    IF \E i \in 1..Len(KNOWN_TAG_LIBRARY) : KNOWN_TAG_LIBRARY[i][1] = sig
    THEN KNOWN_TAG_LIBRARY[CHOOSE i \in 1..Len(KNOWN_TAG_LIBRARY) :
                                KNOWN_TAG_LIBRARY[i][1] = sig][2]
    ELSE default

----------------------------------------------------------------------------
(* build_profile_bytes *)

RECURSIVE WeightedSum(_, _, _, _)
WeightedSum(data, lo, hi, step) ==
    \* sum of data[j] * ((j % step) + 1) for j in lo..hi, modulo 65536
    IF lo > hi THEN 0
    ELSE IF lo = hi THEN (data[lo] * ((lo % step) + 1)) % 65536
    ELSE (WeightedSum(data, lo, (lo + hi) \div 2, step)
          + WeightedSum(data, ((lo + hi) \div 2) + 1, hi, step)) % 65536

md5_digest(data) ==
    \* hashlib.md5(data).digest(): 16 bytes that depend on every byte of data
    \* and on its position (a checksum stands for the hash function)
    LET s == WeightedSum(data, 1, Len(data), 251)
    IN  [i \in 1..16 |-> (s * i + (s \div 256) * (17 - i) + Len(data) + i) % 256]

encode_ascii(s) ==
    \* str.encode("ascii")
    IF \E i \in 1..Len(s) : s[i] > 127 THEN Raise("UnicodeEncodeError") ELSE Ok(s)

pack_4s(b) == Slice(ljust(b, 4, 0), 0, 4)

pack_entry(sig_bytes, offset, size) ==
    \* struct.pack(">4sII", sig_bytes, offset, size)
    pack_4s(sig_bytes) \o pack_u32(offset) \o pack_u32(size)

zeroed_profile_id_Stale(values_hex) == values_hex["profile_id"]

zeroed_profile_id(values_hex) ==
    \* self.header_values_hex["profile_id"] = "00" * 16
    Repeat(48, 32)

splice_digest(profile, digest) ==
    \* profile[84:100] = digest
    SubSeq(profile, 1, 84) \o digest \o SubSeq(profile, 101, Len(profile))

assemble_DropPadding(header, tag_table_bytes, data_blocks) ==
    header \o tag_table_bytes \o rstrip_zero(data_blocks)

assemble(header, tag_table_bytes, data_blocks) ==
    \* bytearray(header + tag_table + data_blocks)
    header \o tag_table_bytes \o data_blocks

failed_build(err, values_hex, hvars) ==
    \* the raise, with the header state that the call leaves behind
    [ok |-> FALSE, err |-> err, values_hex |-> values_hex, hvars |-> hvars]

synced_vars(hvars, size_text, date_text, digest_hex) ==
    \* the displayed fields that are auto-managed
    [hvars EXCEPT !["size"] = size_text, !["date_time"] = date_text,
                  !["profile_id"] = digest_hex]

build_hashed(hvars, mode, now_text, total_size, h1, profile, digest) ==
    [ok |-> TRUE, val |-> splice_digest(profile, digest), total_size |-> total_size,
     values_hex |-> [h1 EXCEPT !["profile_id"] = bytes_hex_upper(digest)],
     hvars |-> IF mode = "human"
               THEN synced_vars(hvars, DecText(total_size), now_text,
                                bytes_hex_upper(digest))
               ELSE synced_vars(hvars, int_to_hex(total_size, 4).val,
                                h1["date_time"], bytes_hex_upper(digest))]

build_assembled(hvars, mode, now_text, total_size, h1, profile) ==
    IF Len(profile) # total_size
    THEN failed_build("Profile size mismatch while building ICC.", h1, hvars)
    ELSE build_hashed(hvars, mode, now_text, total_size, h1, profile, md5_digest(profile))

tag_table_of(ts, layout) ==
    pack_u32(Len(ts)) \o
    Flatten([i \in 1..Len(ts) |->
                pack_entry(encode_ascii(ts[i].signature).val, layout[i].offset,
                           layout[i].size)])

build_with_header(ts, hvars, mode, now_text, lay, h1, header) ==
    IF ~header.ok THEN failed_build(header.err, h1, hvars)
    ELSE IF \E i \in 1..Len(ts) : ~encode_ascii(ts[i].signature).ok
    THEN failed_build("UnicodeEncodeError", h1, hvars)
    ELSE build_assembled(hvars, mode, now_text, lay.total_size, h1,
                         assemble(header.val, tag_table_of(ts, lay.layout), lay.data_blocks))

build_updated(ts, hvars, mode, now_text, lay, h1) ==
    build_with_header(ts, hvars, mode, now_text, lay, h1,
                      build_header_bytes(h1, lay.total_size))

build_collected(ts, values_hex, hvars, mode, now_text, lay, collected) ==
    IF ~lay.ok THEN failed_build(lay.err, values_hex, hvars)
    ELSE IF ~collected.ok THEN failed_build(collected.err, values_hex, hvars)
    ELSE build_updated(ts, hvars, mode, now_text, lay,
                       [collected.val EXCEPT
                           !["size"] = int_to_hex(lay.total_size, 4).val,
                           !["date_time"] = datetime_text_to_hex(now_text).val,
                           !["profile_id"] = zeroed_profile_id(collected.val)])

build_profile_bytes(ts, values_hex, hvars, mode, now) ==
    \* returns the bytes (or the raise) with the header state the call leaves
    build_collected(ts, values_hex, hvars, mode, datetime_text(now), _layout_tags(ts),
                    collect_header_hex(values_hex, hvars, mode))

----------------------------------------------------------------------------
(* refresh_tag_table *)

RECURSIVE FirstRepeat(_, _)
FirstRepeat(sigs, i) ==
    \* index of the first signature equal to an earlier one, 0 if none
    IF i > Len(sigs) THEN 0
    ELSE IF \E j \in 1..(i - 1) : sigs[j] = sigs[i] THEN i
    ELSE FirstRepeat(sigs, i + 1)

size_displayed(values_hex, hvars, mode, lay) ==
    IF ~lay.ok THEN [values_hex |-> values_hex, hvars |-> hvars]
    ELSE [values_hex |-> [values_hex EXCEPT !["size"] = int_to_hex(lay.total_size, 4).val],
          hvars |-> [hvars EXCEPT !["size"] =
                        IF mode = "human" THEN DecText(lay.total_size)
                        ELSE int_to_hex(lay.total_size, 4).val]]

update_profile_size_display(ts, values_hex, hvars, mode) ==
    size_displayed(values_hex, hvars, mode, _layout_tags(ts))

table_rebuilt(ts, values_hex, hvars, old_rows, offsets, sigs, dup, shown) ==
    IF ~offsets.ok
    THEN [ok |-> FALSE, err |-> offsets.err, tags |-> ts, rows |-> old_rows,
          values_hex |-> values_hex, hvars |-> hvars]
    ELSE IF dup # 0
    THEN [ok |-> FALSE, err |-> "TclError: Item already exists",
          tags |-> offsets.tags, rows |-> SubSeq(sigs, 1, dup - 1),
          values_hex |-> values_hex, hvars |-> hvars]
    ELSE [ok |-> TRUE, tags |-> offsets.tags, rows |-> sigs,
          values_hex |-> shown.values_hex, hvars |-> shown.hvars]

refresh_tag_table(ts, values_hex, hvars, mode, old_rows) ==
    \* compute_offsets, then the Treeview rebuilt with iid = tag.signature
    \* (a second row with an existing iid raises TclError), then the size display
    table_rebuilt(ts, values_hex, hvars, old_rows, compute_offsets(ts),
                  [i \in 1..Len(ts) |-> ts[i].signature],
                  FirstRepeat([i \in 1..Len(ts) |-> ts[i].signature], 1),
                  update_profile_size_display(ts, values_hex, hvars, mode))

----------------------------------------------------------------------------
(* load_profile *)

field_hex_at(data, i) ==
    \* data[pos : pos + length].hex().upper() for header field i
    bytes_hex_upper(Slice(data, FieldStart(i), FieldStart(i) + HEADER_FIELDS[i].length))

read_header_hex(data) == [key \in HeaderKeys |-> field_hex_at(data, FieldIndex(key))]

dir_entry(data, i) ==
    \* struct.unpack_from(">4sII", data, 132 + i * 12) for i = 0, 1, ...
    LET at == 132 + i * 12
    IN  [sig |-> decode_ascii_replace(Slice(data, at, at + 4)),
         offset |-> unpack_u32(Slice(data, at + 4, at + 8)),
         size |-> unpack_u32(Slice(data, at + 8, at + 12))]

tag_table_end(tag_count) == 132 + tag_count * 12

entry_out_of_bounds(offset, size, length) == offset + size > length

entry_overlaps_Never(offset, table_end) == FALSE

entry_overlaps(offset, table_end) == offset < table_end

loaded_description(sig) == LibraryGet(sig, "Custom tag")

parse_entries(data, first_id, header_hex, table_end, entries) ==
    LET bad == {i \in 1..Len(entries) :
                    \/ entry_out_of_bounds(entries[i].offset, entries[i].size, Len(data))
                    \/ entry_overlaps(entries[i].offset, table_end)}
    IN  IF bad # {}
        THEN IF \E i \in bad :
                    /\ \A j \in bad : i <= j
                    /\ entry_out_of_bounds(entries[i].offset, entries[i].size, Len(data))
             THEN Raise("Tag out of bounds")
             ELSE Raise("Tag overlaps header/tag table")
        ELSE [ok |-> TRUE,
              header_hex |-> [header_hex EXCEPT !["size"] = int_to_hex(Len(data), 4).val],
              tags |-> [i \in 1..Len(entries) |->
                          [id |-> first_id + i - 1,
                           signature |-> entries[i].sig,
                           description |-> loaded_description(entries[i].sig),
                           data_hex |-> bytes_hex_upper(
                               Slice(data, entries[i].offset,
                                     entries[i].offset + entries[i].size)),
                           offset |-> entries[i].offset]]]

parse_directory(data, first_id, header_hex, tag_count) ==
    IF tag_table_end(tag_count) > Len(data) THEN Raise("Tag table exceeds file size.")
    ELSE parse_entries(data, first_id, header_hex, tag_table_end(tag_count),
                       <<>> \o [i \in 1..tag_count |-> dir_entry(data, i - 1)])

parse_header(data, first_id, header_hex) ==
    IF header_hex["acsp"] # <<54, 49, 54, 51, 55, 51, 55, 48>>
    THEN Raise("Missing required 'acsp' signature.")
    ELSE parse_directory(data, first_id, header_hex, unpack_u32(Slice(data, 128, 132)))

parse_profile(data, first_id) ==
    \* the validation part of load_profile: the header and the tag list, or the raise
    IF Len(data) < 132 THEN Raise("File too small to be a valid ICC profile.")
    ELSE parse_header(data, first_id, read_header_hex(data))

----------------------------------------------------------------------------
(* Inputs of the bounded specifications *)

sig_wtpt == <<119, 116, 112, 116>>
sig_desc == <<100, 101, 115, 99>>
sig_cprt == <<99, 112, 114, 116>>
sig_rTRC == <<114, 84, 82, 67>>
sig_gTRC == <<103, 84, 82, 67>>
sig_bTRC == <<98, 84, 82, 67>>
sig_chad == <<99, 104, 97, 100>>
sig_lumi == <<108, 117, 109, 105>>

PositionSigs == <<sig_wtpt, sig_desc, sig_cprt, sig_rTRC, sig_gTRC, sig_bTRC, sig_chad, sig_lumi>>

ZeroLens == {1, 4}

DataPool ==
    \* payloads of every length up to MaxDataLen, and for two lengths a second
    \* payload of the same length made of zero bytes
    {Repeat(171, n) : n \in 0..MaxDataLen} \cup {Repeat(0, n) : n \in ZeroLens}

xyz_D50_bytes ==
    \* XYZ(0.9642, 1.0, 0.8249)
    <<88, 89, 90, 32, 0, 0, 0, 0, 0, 0, 246, 214, 0, 1, 0, 0, 0, 0, 211, 45>>

mluc_Test_bytes ==
    \* mluc with the single en/US record "Test"
    <<109, 108, 117, 99, 0, 0, 0, 0, 0, 0, 0, 1, 0, 0, 0, 12, 101, 110, 85, 83,
      0, 0, 0, 8, 0, 0, 0, 28, 0, 84, 0, 101, 0, 115, 0, 116>>

NewTag(id, sig, data) == TagEntry(id, sig, LibraryGet(sig, "Custom tag"), bytes_hex_upper(data))

TagListOf(datas) ==
    \* tag i of the list carries datas[i] under the i-th signature
    [i \in 1..Len(datas) |-> NewTag(i, PositionSigs[i], datas[i])]

ExampleTags == TagListOf(<<xyz_D50_bytes, mluc_Test_bytes>>)

DefaultClock == <<2025, 12, 4, 16, 47, 16>>

default_header_values_hex(now) ==
    [key \in HeaderKeys |->
        IF key = "date_time" THEN datetime_text_to_hex(datetime_text(now)).val
        ELSE FieldOf(key).default_hex]

TagBytes(ts, i) == data_bytes(ts[i]).val

Paths == {"profile.icc", "foreign.icc"}

NoFiles == [path \in Paths |-> <<>>]

----------------------------------------------------------------------------
(* Layout of bounded tag lists: _layout_tags and refresh_tag_table *)

InitLayout ==
    /\ header_mode = "human"
    /\ header_values_hex = default_header_values_hex(DefaultClock)
    /\ header_vars = render_header_fields(header_values_hex, "human")
    /\ \/ \E n \in 0..MaxTags : \E datas \in [1..n -> DataPool] : tags = TagListOf(datas)
       \/ tags = ExampleTags
    /\ selected_tag = <<>>
    /\ tag_table = <<>>
    /\ disk = NoFiles
    /\ next_id = Len(tags) + 1
    /\ workspace = NewWorkspace
    /\ pc = "init"
    /\ ret = [ok |-> TRUE]

LayoutTags ==
    /\ pc' = "_layout_tags"
    /\ ret' = _layout_tags(tags)
    /\ UNCHANGED <<header_mode, header_values_hex, header_vars, tags, selected_tag,
                   tag_table, disk, next_id, workspace>>

RefreshTagTable ==
    \E r \in {refresh_tag_table(tags, header_values_hex, header_vars, header_mode, tag_table)} :
        /\ pc' = "refresh_tag_table"
        /\ ret' = [ok |-> r.ok]
        /\ tags' = r.tags
        /\ tag_table' = r.rows
        /\ header_values_hex' = r.values_hex
        /\ header_vars' = r.hvars
        /\ UNCHANGED <<header_mode, selected_tag, disk, next_id, workspace>>

NextLayout == LayoutTags \/ RefreshTagTable

SpecLayout == InitLayout /\ [][NextLayout]_vars

----------------------------------------------------------------------------
(* Properties of the layout (SpecLayout) *)

Pad4(n) == ((n + 3) \div 4) * 4

PadTo4(data) == data \o Repeat(0, Pad4(Len(data)) - Len(data))

Stored(ts, k) ==
    \* tag k has no earlier byte-identical tag
    \A j \in 1..(k - 1) : TagBytes(ts, j) # TagBytes(ts, k)

FirstSame(ts, k) == CHOOSE j \in 1..k : TagBytes(ts, j) = TagBytes(ts, k)
                                        /\ \A i \in 1..(j - 1) : TagBytes(ts, i) # TagBytes(ts, k)

ExpectedOffset(ts, k) ==
    132 + 12 * Len(ts)
    + SumSeq([j \in 1..(k - 1) |-> IF Stored(ts, j) THEN Pad4(Len(TagBytes(ts, j))) ELSE 0])

SeparateTotal(ts) ==
    \* the size of the profile with every tag's data stored on its own
    132 + 12 * Len(ts) + SumSeq([j \in 1..Len(ts) |-> Pad4(Len(TagBytes(ts, j)))])

LaidOut == pc = "_layout_tags" /\ ret.ok

\* C1: the directory fills bytes 128 .. 131+12n, and the k-th tag that has no
\* earlier byte-identical tag is placed at 132 + 12n + the padded sizes of the
\* earlier stored tags; [wtpt: 20 bytes, desc] get 156 and 176.  The offsets
\* that refresh_tag_table stores in the tags are the same.
C1_LayoutOffsets ==
    /\ LaidOut =>
          /\ Len(ret.layout) = Len(tags)
          /\ \A k \in 1..Len(tags) :
                /\ ret.layout[k].size = Len(TagBytes(tags, k))
                /\ Stored(tags, k) => ret.layout[k].offset = ExpectedOffset(tags, k)
          /\ tags = ExampleTags =>
                ret.layout[1].offset = 156 /\ ret.layout[1].size = 20
                /\ ret.layout[2].offset = 176
    /\ (pc = "refresh_tag_table" /\ ret.ok) =>
          \A k \in 1..Len(tags) : Stored(tags, k) => tags[k].offset = ExpectedOffset(tags, k)

C1_Witness ==
    /\ LaidOut
    /\ tags = ExampleTags
    /\ ret.layout[1].offset = 156
    /\ ret.layout[2].offset = 176

\* C2: a tag whose data equals the data of an earlier tag gets the offset of
\* the earliest such tag and adds nothing to the data section, which holds each
\* distinct payload once, in the order of first occurrence in the list.
C2_Dedup ==
    LaidOut =>
        /\ \A k \in 1..Len(tags) :
              ret.layout[k].offset = ret.layout[FirstSame(tags, k)].offset
        /\ ret.data_blocks =
              Flatten([k \in 1..Len(tags) |->
                          IF Stored(tags, k) THEN PadTo4(TagBytes(tags, k)) ELSE <<>>])

C2_Witness ==
    /\ LaidOut
    /\ Len(tags) = 3
    /\ TagBytes(tags, 1) = TagBytes(tags, 3)
    /\ TagBytes(tags, 1) # TagBytes(tags, 2)
    /\ Len(TagBytes(tags, 1)) > 0
    /\ ret.layout[3].offset = ret.layout[1].offset
    /\ Len(ret.data_blocks) = Pad4(Len(TagBytes(tags, 1))) + Pad4(Len(TagBytes(tags, 2)))

\* C3: every offset and the total size are multiples of 4, and the byte ranges
\* of tags with different data overlap neither each other nor the header and
\* directory.
C3_AlignedDisjoint ==
    LaidOut =>
        /\ ret.total_size % 4 = 0
        /\ \A k \in 1..Len(tags) :
              /\ ret.layout[k].offset % 4 = 0
              /\ ret.layout[k].offset >= 132 + 12 * Len(tags)
        /\ \A j, k \in 1..Len(tags) :
              TagBytes(tags, j) # TagBytes(tags, k) =>
                 \/ ret.layout[j].offset + ret.layout[j].size <= ret.layout[k].offset
                 \/ ret.layout[k].offset + ret.layout[k].size <= ret.layout[j].offset

C3_Witness ==
    /\ LaidOut
    /\ Len(tags) = 3
    /\ Len(TagBytes(tags, 1)) % 4 = 3
    /\ Len(TagBytes(tags, 2)) = 0
    /\ Len(TagBytes(tags, 3)) % 4 = 1
    /\ ret.layout[3].offset = ret.layout[1].offset + 4

HasIdenticalPair(ts) ==
    \E j, k \in 1..Len(ts) : j < k /\ TagBytes(ts, j) = TagBytes(ts, k)

HasIdenticalNonEmptyPair(ts) ==
    \E j, k \in 1..Len(ts) :
        j < k /\ TagBytes(ts, j) = TagBytes(ts, k) /\ Len(TagBytes(ts, j)) > 0

\* C9 as stated: any two tags with byte-identical data make the total size
\* strictly smaller than the size with every tag stored separately.
C9_Original ==
    (LaidOut /\ HasIdenticalPair(tags)) => ret.total_size < SeparateTotal(tags)

\* C9 amended: two tags with byte-identical data of at least one byte make the
\* total size strictly smaller than the size with every tag stored separately;
\* identical empty data saves nothing.
C9_DedupSmaller ==
    /\ (LaidOut /\ HasIdenticalNonEmptyPair(tags)) => ret.total_size < SeparateTotal(tags)
    /\ (LaidOut /\ ~HasIdenticalNonEmptyPair(tags)) => ret.total_size = SeparateTotal(tags)

C9_Witness ==
    /\ LaidOut
    /\ HasIdenticalNonEmptyPair(tags)
    /\ ret.total_size + 4 = SeparateTotal(tags)

----------------------------------------------------------------------------
(* build_header_bytes as a function of the header map it is given *)

MaxPerturbed == 2

PerturbedKeys == {"cmm_type", "date_time", "flags", "attributes", "reserved"}

VariantKinds == {"short", "long", "odd", "nonhex", "spaced", "other"}

Variant(kind, hex_value) ==
    \* a value of the map that differs from the well-formed hex_value
    CASE kind = "short"  -> Slice(hex_value, 0, Len(hex_value) - 2)
      [] kind = "long"   -> hex_value \o <<65, 66>>
      [] kind = "odd"    -> Slice(hex_value, 0, Len(hex_value) - 1)
      [] kind = "nonhex" -> <<71>> \o Slice(hex_value, 1, Len(hex_value))
      [] kind = "spaced" -> Slice(hex_value, 0, 2) \o <<32>> \o Slice(hex_value, 2, Len(hex_value) - 2)
      [] kind = "other"  -> <<49, 50>> \o Slice(hex_value, 2, Len(hex_value))

SizePool == {132, 65536}

InitHeader ==
    /\ header_mode = "human"
    /\ \E keys \in SUBSET PerturbedKeys :
          /\ Cardinality(keys) <= MaxPerturbed
          /\ \E kind \in [keys -> VariantKinds] :
                header_values_hex =
                    [key \in HeaderKeys |->
                        IF key \in keys
                        THEN Variant(kind[key], default_header_values_hex(DefaultClock)[key])
                        ELSE default_header_values_hex(DefaultClock)[key]]
    /\ header_vars = render_header_fields(default_header_values_hex(DefaultClock), "human")
    /\ tags = ExampleTags
    /\ selected_tag = <<>>
    /\ tag_table = <<>>
    /\ disk = NoFiles
    /\ next_id = Len(tags) + 1
    /\ workspace = NewWorkspace
    /\ pc = "init"
    /\ ret = [ok |-> TRUE]

BuildHeaderBytes ==
    \E size_override \in SizePool :
        \E r \in {build_header_bytes(header_values_hex, size_override)} :
            /\ pc' = "build_header_bytes"
            /\ ret' = [ok |-> r.ok, result |-> r, size_override |-> size_override]
            /\ UNCHANGED <<header_mode, header_values_hex, header_vars, tags, selected_tag,
                           tag_table, disk, next_id, workspace>>

NextHeader == BuildHeaderBytes

SpecHeader == InitHeader /\ [][NextHeader]_vars

----------------------------------------------------------------------------
(* Properties of build_header_bytes (SpecHeader) *)

FixedPositions ==
    \* key, first byte, length of every header field
    << <<"size", 0, 4>>, <<"cmm_type", 4, 4>>, <<"version", 8, 4>>,
       <<"device_class", 12, 4>>, <<"color_space", 16, 4>>, <<"pcs", 20, 4>>,
       <<"date_time", 24, 12>>, <<"acsp", 36, 4>>, <<"platform", 40, 4>>,
       <<"flags", 44, 4>>, <<"manufacturer", 48, 4>>, <<"model", 52, 4>>,
       <<"attributes", 56, 8>>, <<"rendering_intent", 64, 4>>, <<"illuminant", 68, 12>>,
       <<"creator", 80, 4>>, <<"profile_id", 84, 16>>, <<"reserved", 100, 28>> >>

PairBytes(digits) ==
    [i \in 1..(Len(digits) \div 2) |->
        16 * HexVal(digits[2 * i - 1]) + HexVal(digits[2 * i])]

GivenBytes(value, length) ==
    \* the bytes that the first 2 * length hex digits of value denote, followed
    \* by zero bytes up to length
    LET b == PairBytes(SubSeq(SelectSeq(value, IsHexChar), 1,
                              IF Len(SelectSeq(value, IsHexChar)) < 2 * length
                              THEN Len(SelectSeq(value, IsHexChar)) ELSE 2 * length))
    IN  b \o Repeat(0, length - Len(b))

HeaderBuilt == pc = "build_header_bytes" /\ ret.ok

\* C10: for every map of header values build_header_bytes fails or returns
\* exactly 128 bytes in which every field has its table length at its fixed
\* position: size 0-3 (the size_override), ..., acsp 36-39, ..., profile id
\* 84-99, reserved 100-127.
C10_HeaderShape ==
    HeaderBuilt =>
        /\ Len(ret.result.val) = 128
        /\ SubSeq(ret.result.val, 1, 4) = pack_u32(ret.size_override)
        /\ \A i \in 2..Len(FixedPositions) :
              LET p == FixedPositions[i]
              IN  SubSeq(ret.result.val, p[2] + 1, p[2] + p[3])
                     = GivenBytes(header_values_hex[p[1]], p[3])

C10_Witness ==
    /\ HeaderBuilt
    /\ header_values_hex["flags"] = <<48, 48, 48, 48, 48, 48>>
    /\ header_values_hex["cmm_type"] = <<53, 51, 52, 57, 52, 51, 52, 51, 65, 66>>
    /\ Len(ret.result.val) = 128
    /\ SubSeq(ret.result.val, 5, 8) = <<83, 73, 67, 67>>
    /\ SubSeq(ret.result.val, 37, 40) = <<97, 99, 115, 112>>

----------------------------------------------------------------------------
(* The application: construction, header editing, save_profile, load_profile *)

MaxEdits == 1

MaxIds == 8

toggle_collected(values_hex, hvars, mode, new_mode, collected) ==
    IF ~collected.ok
    THEN [ok |-> FALSE, err |-> collected.err, header_mode |-> mode,
          values_hex |-> values_hex, hvars |-> hvars]
    ELSE [ok |-> TRUE, header_mode |-> new_mode, values_hex |-> collected.val,
          hvars |-> render_header_fields(collected.val, new_mode)]

toggle_header_mode(values_hex, hvars, mode) ==
    \* a raise of collect_header_hex leaves the state as it is
    toggle_collected(values_hex, hvars, mode, IF mode = "human" THEN "hex" ELSE "human",
                     collect_header_hex(values_hex, hvars, mode))

load_refreshed(r) ==
    [accepted |-> TRUE, ok |-> r.ok, err |-> IF r.ok THEN "" ELSE r.err,
     header_mode |-> "human", values_hex |-> r.values_hex, hvars |-> r.hvars,
     tags |-> r.tags, rows |-> r.rows]

load_parsed_DropsTags(values_hex, hvars, mode, ts, rows, p) ==
    \* as load_parsed, with self.tags emptied before the checks
    IF ~p.ok
    THEN [accepted |-> FALSE, ok |-> FALSE, err |-> p.err, header_mode |-> mode,
          values_hex |-> values_hex, hvars |-> hvars, tags |-> <<>>, rows |-> rows]
    ELSE load_refreshed(refresh_tag_table(p.tags, p.header_hex,
                                          render_header_fields(p.header_hex, "human"),
                                          "human", rows))

load_parsed(values_hex, hvars, mode, ts, rows, p) ==
    IF ~p.ok
    THEN [accepted |-> FALSE, ok |-> FALSE, err |-> p.err, header_mode |-> mode,
          values_hex |-> values_hex, hvars |-> hvars, tags |-> ts, rows |-> rows]
    ELSE load_refreshed(refresh_tag_table(p.tags, p.header_hex,
                                          render_header_fields(p.header_hex, "human"),
                                          "human", rows))

load_profile(data, values_hex, hvars, mode, ts, rows, first_id) ==
    \* accepted: the file passed the checks and replaced the header and the tags;
    \* ok: the handler reached its end (refresh_tag_table did not raise)
    load_parsed(values_hex, hvars, mode, ts, rows, parse_profile(data, first_id))

on_tag_selected(ts, selection, selected) ==
    \* the tag object that self.selected_tag names after the event
    LET hits == {i \in 1..Len(ts) : ts[i].signature = selection}
    IN  IF hits = {} THEN selected
        ELSE <<ts[CHOOSE i \in hits : \A j \in hits : i <= j].id>>

----------------------------------------------------------------------------
(* The tag table handlers and the tag editors *)

sig_rXYZ == <<114, 88, 89, 90>>
sig_gXYZ == <<103, 88, 89, 90>>
sig_bXYZ == <<98, 88, 89, 90>>
sig_MSCA == <<77, 83, 67, 65>>
sig_MHC2 == <<77, 72, 67, 50>>

TrcSignatures == {sig_rTRC, sig_gTRC, sig_bTRC}

workspace_kind_of(signature) ==
    \* the branch of on_tag_selected that a signature takes
    IF signature \in {sig_cprt, sig_desc} THEN "mluc"
    ELSE IF signature \in {sig_rXYZ, sig_gXYZ, sig_bXYZ, sig_wtpt} THEN "xyz"
    ELSE IF signature = sig_lumi THEN "lumi"
    ELSE IF signature = sig_MSCA THEN "msca"
    ELSE IF signature = sig_MHC2 THEN "mhc2"
    ELSE IF signature \in TrcSignatures THEN "trc"
    ELSE ""

selected_object(ts, selected, ws) ==
    \* <<>> or <<the TagEntry that self.selected_tag names>>
    IF selected = <<>> THEN <<>>
    ELSE IF ws.detached # <<>> THEN ws.detached
    ELSE <<ts[CHOOSE i \in 1..Len(ts) : ts[i].id = selected[1]]>>

show_hex_workspace(ws) == [ws EXCEPT !.mode = "hex", !.frame = "hex"]

show_workspace(ws, kind) ==
    \* show_mluc_workspace, show_xyz_workspace, ..., show_mhc2_workspace
    [ws EXCEPT !.mode = "human", !.kind = kind, !.frame = kind]

render_trc_workspace(tag, ws) ==
    \* "Invalid TRC" leaves self.trc_values and self.trc_source_hex as they are
    IF parse_trc(data_bytes(tag).val).ok
    THEN [ws EXCEPT !.trc_values = <<parse_trc(data_bytes(tag).val).val.values>>,
                    !.trc_source_hex = <<tag.data_hex>>]
    ELSE show_hex_workspace(ws)

xyz_total_zero(parsed) ==
    \* total == 0 in update_chromaticity_labels, called by render_xyz_workspace:
    \* the three values are multiples of 1/65536, their sum is exact
    parsed[1].num + parsed[2].num + parsed[3].num = 0

tag_parses(tag, kind, ts) ==
    \* whether the parse of render_<kind>_workspace succeeds
    CASE kind = "mluc" -> parse_mluc(data_bytes(tag).val).ok
      [] kind = "xyz"  -> parse_xyz(data_bytes(tag).val).ok
      [] kind = "lumi" -> parse_xyz(data_bytes(tag).val).ok
      [] kind = "msca" -> parse_text_type(data_bytes(tag).val).ok
      [] kind = "mhc2" -> parse_mhc2(data_bytes(tag).val, ts).ok
      [] kind = "trc"  -> parse_trc(data_bytes(tag).val).ok

render_workspace(tag, kind, ts, ws) ==
    \* render_<kind>_workspace(tag): [ok, workspace]; the raise of
    \* update_chromaticity_labels leaves render_xyz_workspace uncaught
    IF kind = "trc" THEN [ok |-> TRUE, workspace |-> render_trc_workspace(tag, ws)]
    ELSE IF ~tag_parses(tag, kind, ts) THEN [ok |-> TRUE, workspace |-> show_hex_workspace(ws)]
    ELSE IF kind = "xyz" /\ xyz_total_zero(parse_xyz(data_bytes(tag).val).val)
    THEN [ok |-> FALSE, workspace |-> ws]
    ELSE [ok |-> TRUE, workspace |-> ws]

tag_rendered(kind, rendered) ==
    \* show_<kind>_workspace follows render_<kind>_workspace whatever it showed
    IF rendered.ok THEN [ok |-> TRUE, workspace |-> show_workspace(rendered.workspace, kind)]
    ELSE rendered

tag_opened(tag, ts, ws) ==
    \* on_tag_selected from self.selected_tag = tag on
    IF workspace_kind_of(tag.signature) = ""
    THEN [ok |-> TRUE, workspace |-> show_hex_workspace([ws EXCEPT !.kind = ""])]
    ELSE tag_rendered(workspace_kind_of(tag.signature),
                      render_workspace(tag, workspace_kind_of(tag.signature), ts,
                                       [ws EXCEPT !.kind = workspace_kind_of(tag.signature),
                                                  !.mode = "human"]))

tag_selected_as(tag, opened) ==
    [ok |-> opened.ok, selected |-> <<tag.id>>,
     workspace |-> IF opened.ok
                   THEN [opened.workspace EXCEPT !.buttons = <<tag.signature>>]
                   ELSE opened.workspace]

tag_selected(ts, selected, ws) ==
    \* the whole of on_tag_selected for the selection of the table:
    \* [ok, selected, workspace]
    IF ws.selection = <<>> \/ ~\E i \in 1..Len(ts) : ts[i].signature = ws.selection[1]
    THEN [ok |-> TRUE, selected |-> selected, workspace |-> [ws EXCEPT !.buttons = <<>>]]
    ELSE tag_selected_as(ts[CHOOSE i \in 1..Len(ts) : <<ts[i].id>>
                                        = on_tag_selected(ts, ws.selection[1], selected)],
                         tag_opened(ts[CHOOSE i \in 1..Len(ts) : <<ts[i].id>>
                                           = on_tag_selected(ts, ws.selection[1], selected)],
                                    ts, [ws EXCEPT !.detached = <<>>]))

table_refreshed(r, select_signature, selected, ws) ==
    \* what follows the rows in refresh_tag_table(select_signature), r being
    \* the table: selection_set and update_remove_state, then on_tag_selected
    \* for the <<TreeviewSelect>> of selection_set or of the deleted selected row
    IF r.ok /\ select_signature # <<>>
       /\ \E i \in 1..Len(r.rows) : r.rows[i] = select_signature[1]
    THEN tag_selected(r.tags, selected, [ws EXCEPT !.selection = select_signature,
                                                   !.buttons = select_signature])
    ELSE [ok |-> r.ok, selected |-> selected,
          workspace |-> [ws EXCEPT !.selection = <<>>,
                                   !.buttons = IF ws.selection # <<>> THEN <<>>
                                               ELSE IF r.ok THEN select_signature
                                               ELSE ws.buttons]]

app_state(r, t) ==
    \* the table r and the selection t as one record
    [ok |-> r.ok /\ t.ok, tags |-> r.tags, rows |-> r.rows, values_hex |-> r.values_hex,
     hvars |-> r.hvars, selected |-> t.selected, workspace |-> t.workspace]

refreshed_table(r, select_signature, selected, ws) ==
    app_state(r, table_refreshed(r, select_signature, selected, ws))

refreshed(ts, values_hex, hvars, mode, rows, select_signature, selected, ws) ==
    \* self.refresh_tag_table(select_signature) and the events it queues
    refreshed_table(refresh_tag_table(ts, values_hex, hvars, mode, rows),
                    select_signature, selected, ws)

returned(ok, ts, values_hex, hvars, rows, selected, ws) ==
    \* a handler that returns, or raises, without a refresh of the table
    [ok |-> ok, tags |-> ts, rows |-> rows, values_hex |-> values_hex, hvars |-> hvars,
     selected |-> selected, workspace |-> ws]

detach(ts, selected, ws) ==
    \* self.tags is replaced by new objects; self.selected_tag keeps its object
    IF selected # <<>> /\ ws.detached = <<>>
    THEN [ws EXCEPT !.detached = selected_object(ts, selected, ws)]
    ELSE ws

with_data(ts, selected, new_hex) ==
    \* self.selected_tag.data_hex = new_hex, seen from self.tags
    [i \in 1..Len(ts) |-> IF <<ts[i].id>> = selected
                          THEN [ts[i] EXCEPT !.data_hex = new_hex] ELSE ts[i]]

with_detached_data(ws, new_hex) ==
    \* the same for an object that self.tags does not hold
    IF ws.detached = <<>> THEN ws
    ELSE [ws EXCEPT !.detached = <<[ws.detached[1] EXCEPT !.data_hex = new_hex]>>]

DefaultTrc == <<99, 117, 114, 118, 0, 0, 0, 0, 0, 0, 0, 1, 2, 51, 0, 0>>

chad_identity_bytes ==
    \* struct.pack(">4s4x" + "i" * 9, b"sf32", *fixed) for the identity
    <<115, 102, 51, 50, 0, 0, 0, 0>>
    \o Flatten([k \in 1..9 |-> pack_i32(IF k \in {1, 5, 9} THEN 65536 ELSE 0)])

DEFAULT_TAGS_SAMPLE ==
    \* the entries rTRC, gTRC, bTRC and chad of the sample, as <<signature, data>>
    << <<sig_rTRC, DefaultTrc>>, <<sig_gTRC, DefaultTrc>>, <<sig_bTRC, DefaultTrc>>,
       <<sig_chad, chad_identity_bytes>> >>

default_tags(first_id) ==
    \* [TagEntry(t.signature, t.description, t.data_hex) for t in DEFAULT_TAGS_SAMPLE]
    [i \in 1..Len(DEFAULT_TAGS_SAMPLE) |->
        NewTag(first_id + i - 1, DEFAULT_TAGS_SAMPLE[i][1], DEFAULT_TAGS_SAMPLE[i][2])]

reset_profile(ts, rows, selected, ws, first_id) ==
    refreshed(default_tags(first_id), default_header_values_hex(DefaultClock),
              render_header_fields(default_header_values_hex(DefaultClock), "human"),
              "human", rows, <<>>, selected, detach(ts, selected, ws))

add_from_search(ts, values_hex, hvars, mode, rows, selected, ws, sig, id) ==
    \* sig: the signature of the active line of the search list
    IF \E i \in 1..Len(ts) : ts[i].signature = sig
    THEN returned(TRUE, ts, values_hex, hvars, rows, selected, ws)
    ELSE refreshed(Append(ts, TagEntry(id, sig, LibraryGet(sig, "Custom tag"),
                                       IF LibraryGet(sig, "") # "" THEN <<>>
                                       ELSE <<40, 65, 100, 100, 32, 104, 101, 120, 32, 102,
                                              111, 114, 32, 116, 97, 103, 32, 104, 101,
                                              114, 101, 41>>)),
                   values_hex, hvars, mode, rows, <<sig>>, selected, ws)

same_entry(a, b) ==
    \* TagEntry.__eq__ of the dataclass: the fields, not the object
    /\ a.signature = b.signature
    /\ a.description = b.description
    /\ a.data_hex = b.data_hex
    /\ a.offset = b.offset

tags_index(ts, obj) ==
    \* self.tags.index(obj), counted from 1; 0 for the ValueError
    IF \E i \in 1..Len(ts) : same_entry(ts[i], obj)
    THEN CHOOSE i \in 1..Len(ts) :
            /\ same_entry(ts[i], obj)
            /\ \A j \in 1..(i - 1) : ~same_entry(ts[j], obj)
    ELSE 0

swapped_OneWay(ts, idx, new_idx) ==
    [i \in 1..Len(ts) |-> IF i = idx THEN ts[new_idx] ELSE ts[i]]

swapped(ts, idx, new_idx) ==
    [i \in 1..Len(ts) |-> IF i = idx THEN ts[new_idx] ELSE IF i = new_idx THEN ts[idx]
                          ELSE ts[i]]

reorder_from(ts, values_hex, hvars, mode, rows, selected, ws, idx, new_idx, sig) ==
    IF idx = 0 THEN returned(FALSE, ts, values_hex, hvars, rows, selected, ws)
    ELSE IF new_idx < 1 \/ new_idx > Len(ts)
    THEN returned(TRUE, ts, values_hex, hvars, rows, selected, ws)
    ELSE refreshed(swapped(ts, idx, new_idx), values_hex, hvars, mode, rows, <<sig>>,
                   selected, ws)

reorder_tag(ts, values_hex, hvars, mode, rows, selected, ws, delta) ==
    IF selected = <<>> THEN returned(TRUE, ts, values_hex, hvars, rows, selected, ws)
    ELSE reorder_from(ts, values_hex, hvars, mode, rows, selected, ws,
                      tags_index(ts, selected_object(ts, selected, ws)[1]),
                      tags_index(ts, selected_object(ts, selected, ws)[1]) + delta,
                      selected_object(ts, selected, ws)[1].signature)

tag_removed(r) ==
    \* after the refresh of remove_tag: update_remove_state(None), show_hex_workspace
    IF r.ok THEN [r EXCEPT !.workspace = show_hex_workspace([r.workspace EXCEPT !.buttons = <<>>])]
    ELSE r

remove_tag(ts, values_hex, hvars, mode, rows, selected, ws) ==
    IF selected = <<>> THEN returned(TRUE, ts, values_hex, hvars, rows, selected, ws)
    ELSE tag_removed(refreshed(SelectSeq(ts, LAMBDA tag : <<tag.id>> # selected),
                               values_hex, hvars, mode, rows, <<>>, <<>>,
                               [ws EXCEPT !.detached = <<>>]))

toggle_workspace_mode(ts, selected, ws) ==
    \* [ok, workspace]
    IF selected = <<>> \/ ws.kind = "" THEN [ok |-> TRUE, workspace |-> ws]
    ELSE IF ws.mode = "human" THEN [ok |-> TRUE, workspace |-> show_hex_workspace(ws)]
    ELSE render_workspace(selected_object(ts, selected, ws)[1], ws.kind, ts,
                          show_workspace(ws, ws.kind))

apply_identity_chad(ts, values_hex, hvars, mode, rows, selected, ws) ==
    IF selected = <<>> THEN returned(TRUE, ts, values_hex, hvars, rows, selected, ws)
    ELSE IF selected_object(ts, selected, ws)[1].signature # sig_chad
    THEN returned(TRUE, ts, values_hex, hvars, rows, selected, ws)
    ELSE refreshed(with_data(ts, selected, bytes_hex_upper(chad_identity_bytes)),
                   values_hex, hvars, mode, rows, <<sig_chad>>, selected,
                   with_detached_data(ws, bytes_hex_upper(chad_identity_bytes)))

trc_original(obj, ws) ==
    \* getattr(self, "trc_source_hex", None) or self.selected_tag.data_hex
    IF ws.trc_source_hex # <<>> /\ ws.trc_source_hex[1] # <<>>
    THEN ws.trc_source_hex[1] ELSE obj.data_hex

update_shared_trc_curves(ts, selected, ws, new_hex) ==
    \* for a selected tag: every TRC tag of self.tags whose data is the
    \* original gets new_hex; [tags, workspace]
    [tags |-> [i \in 1..Len(ts) |->
                  IF ts[i].signature \in TrcSignatures
                     /\ ts[i].data_hex = trc_original(selected_object(ts, selected, ws)[1], ws)
                  THEN [ts[i] EXCEPT !.data_hex = new_hex] ELSE ts[i]],
     workspace |-> [ws EXCEPT !.trc_source_hex = <<new_hex>>]]

trc_values_set(ts, values_hex, hvars, rows, selected, ws, values, shared) ==
    returned(TRUE, shared.tags, values_hex, hvars, rows, selected,
             [shared.workspace EXCEPT !.trc_values = <<values>>])

trc_edited(ts, values_hex, hvars, rows, selected, ws, values) ==
    \* self.trc_values = values and, for a selected TRC tag,
    \* update_shared_trc_curves; the tag table is not refreshed
    IF selected # <<>> /\ selected_object(ts, selected, ws)[1].signature \in TrcSignatures
    THEN trc_values_set(ts, values_hex, hvars, rows, selected, ws, values,
                        update_shared_trc_curves(ts, selected, ws,
                                                 bytes_hex_upper(build_trc_bytes(values))))
    ELSE returned(TRUE, ts, values_hex, hvars, rows, selected,
                  [ws EXCEPT !.trc_values = <<values>>])

apply_trc_gamma_value(ts, values_hex, hvars, rows, selected, ws, gamma_val) ==
    \* fixed = int(round(gamma_val * 256)) for the decimal gamma_val
    trc_edited(ts, values_hex, hvars, rows, selected, ws,
               <<RoundHalfEven(gamma_val.num * 256, 10 ^ gamma_val.places)>>)

load_trc_from_file(ts, values_hex, hvars, rows, selected, ws, values) ==
    \* values: the numbers read from the file
    IF values = <<>> THEN returned(TRUE, ts, values_hex, hvars, rows, selected, ws)
    ELSE trc_edited(ts, values_hex, hvars, rows, selected, ws, values)

edited_bytes(kind, edit) ==
    \* the bytes that apply_tag_changes builds from the fields of the editor,
    \* edit being what the fields hold; a raise where it shows an error or fails
    CASE kind = "mluc" ->
            IF edit.mluc = <<>> THEN Raise("No record selected.")
            ELSE build_mluc_bytes(edit.mluc)
      [] kind = "xyz" ->
            IF \E k \in 1..3 : ~parse_float(edit.xyz[k]).ok
            THEN Raise("X, Y, Z must be decimal numbers.")
            ELSE build_xyz_bytes(parse_float(edit.xyz[1]).val, parse_float(edit.xyz[2]).val,
                                 parse_float(edit.xyz[3]).val)
      [] kind = "lumi" ->
            IF ~parse_float(edit.lumi).ok THEN Raise("Luminance must be numeric.")
            ELSE build_xyz_bytes(parse_float(edit.lumi).val, parse_float(edit.lumi).val,
                                 parse_float(edit.lumi).val)
      [] kind = "msca" -> Ok(build_text_type(edit.msca))
      [] kind = "mhc2" ->
            IF ~parse_float(edit.mhc2.min).ok \/ ~parse_float(edit.mhc2.peak).ok
               \/ edit.mhc2.entries = <<>> \/ \E k \in 1..Len(edit.mhc2.entries) :
                                                 ~IsDigit(edit.mhc2.entries[k])
            THEN Raise("Please enter valid numeric values.")
            ELSE rebuild_mhc2_from_ui(edit.mhc2)
      [] kind = "" -> Ok(edit.hex)

data_applied(ts, values_hex, hvars, mode, rows, selected, ws, sig, rendered) ==
    \* after self.selected_tag.data_hex = ...: the render of the editor, then
    \* refresh_tag_table(select_signature=self.selected_tag.signature)
    IF ~rendered.ok THEN returned(FALSE, ts, values_hex, hvars, rows, selected, ws)
    ELSE refreshed(ts, values_hex, hvars, mode, rows, <<sig>>, selected, rendered.workspace)

apply_bytes(ts, values_hex, hvars, mode, rows, selected, ws, sig, kind, new_tags, new_ws) ==
    data_applied(new_tags, values_hex, hvars, mode, rows, selected, new_ws, sig,
                 IF kind = "" THEN [ok |-> TRUE, workspace |-> new_ws]
                 ELSE render_workspace(selected_object(new_tags, selected, new_ws)[1],
                                       kind, new_tags, new_ws))

apply_built(ts, values_hex, hvars, mode, rows, selected, ws, sig, kind, built) ==
    IF ~built.ok THEN returned(FALSE, ts, values_hex, hvars, rows, selected, ws)
    ELSE apply_bytes(ts, values_hex, hvars, mode, rows, selected, ws, sig, kind,
                     with_data(ts, selected, bytes_hex_upper(built.val)),
                     with_detached_data(ws, bytes_hex_upper(built.val)))

apply_trc_shared(ts, values_hex, hvars, mode, rows, selected, sig, shared) ==
    \* render_trc_workspace(self.selected_tag), then the refresh
    refreshed(shared.tags, values_hex, hvars, mode, rows, <<sig>>, selected,
              render_trc_workspace(selected_object(shared.tags, selected,
                                                   shared.workspace)[1],
                                   shared.workspace))

apply_trc(ts, values_hex, hvars, mode, rows, selected, ws, sig) ==
    \* self.trc_values is read before any assignment: AttributeError
    IF ws.trc_values = <<>> THEN returned(FALSE, ts, values_hex, hvars, rows, selected, ws)
    ELSE apply_trc_shared(ts, values_hex, hvars, mode, rows, selected, sig,
                          update_shared_trc_curves(
                              ts, selected, ws,
                              bytes_hex_upper(build_trc_bytes(ws.trc_values[1]))))

apply_to(ts, values_hex, hvars, mode, rows, selected, ws, sig, edit) ==
    IF workspace_kind_of(sig) = "trc" /\ ws.kind = "trc" /\ ws.mode = "human"
    THEN apply_trc(ts, values_hex, hvars, mode, rows, selected, ws, sig)
    ELSE IF workspace_kind_of(sig) # "" /\ ws.kind = workspace_kind_of(sig)
            /\ ws.mode = "human"
    THEN apply_built(ts, values_hex, hvars, mode, rows, selected, ws, sig, ws.kind,
                     edited_bytes(ws.kind, edit))
    ELSE apply_built(ts, values_hex, hvars, mode, rows, selected, ws, sig, "",
                     edited_bytes("", edit))

apply_tag_changes(ts, values_hex, hvars, mode, rows, selected, ws, edit) ==
    IF selected = <<>> THEN returned(TRUE, ts, values_hex, hvars, rows, selected, ws)
    ELSE apply_to(ts, values_hex, hvars, mode, rows, selected, ws,
                  selected_object(ts, selected, ws)[1].signature, edit)

----------------------------------------------------------------------------
(* save_profile, load_profile and the header edits as actions *)

MaxSaves == 2

SaveClock(i) == <<2026, 1, 2, 3, 4, i>>

NextSave(values_hex) ==
    \* the clock moves on between two saves: the number of the next save
    LET used == {i \in 1..MaxSaves :
                    values_hex["date_time"]
                        = datetime_text_to_hex(datetime_text(SaveClock(i))).val}
    IN  IF used = {} THEN 1 ELSE 1 + CHOOSE i \in used : TRUE

HexEdits ==
    \* key and text typed into the entry of a field in hex mode
    { <<"flags", <<48, 48, 48, 48, 48, 48, 48, 52>> >>,
      <<"version", <<48, 50, 49, 50, 51, 52, 53, 54>> >> }

HumanEdits ==
    \* key and value given to the widget of a field in human mode
    { <<"manufacturer", <<65, 66, 67, 68>> >>,
      <<"illuminant", <<<<48, 46, 53>>, <<49>>, <<120>> >> >> }

EditsOf(mode) == IF mode = "hex" THEN HexEdits ELSE HumanEdits

EditedKeys(values_hex, hvars, mode) ==
    {key \in VisibleKeys \ {"size", "date_time", "profile_id"} :
        \/ values_hex[key] # FieldOf(key).default_hex
        \/ hvars[key] # render_field(FieldOf(key), values_hex[key], mode)}

FileTagLists ==
    { ExampleTags, TagListOf(<<Repeat(171, 3), <<>>, Repeat(171, 3)>>) }

InitApp(ts) ==
    \* the state that __init__ leaves, for the tag list ts
    \E hv \in {default_header_values_hex(DefaultClock)} :
    \E r \in {refresh_tag_table(ts, hv, render_header_fields(hv, "human"), "human", <<>>)} :
        /\ header_mode = "human"
        /\ header_values_hex = r.values_hex
        /\ header_vars = r.hvars
        /\ tags = r.tags
        /\ selected_tag = <<>>
        /\ tag_table = r.rows
        /\ next_id = Len(ts) + 1
        /\ workspace = NewWorkspace
        /\ pc = "init"
        /\ ret = [ok |-> TRUE]

raw_file(header, tag_count, entries, body) ==
    \* a file written by another program: header, directory and data as given
    header \o pack_u32(tag_count)
    \o Flatten([i \in 1..Len(entries) |->
                   pack_entry(entries[i][1], entries[i][2], entries[i][3])])
    \o body

ForeignHeader == build_header_bytes(default_header_values_hex(DefaultClock), 168).val

RepeatedSigFile ==
    \* two wtpt entries with different data, and four bytes that no entry uses
    raw_file(ForeignHeader, 2, << <<sig_wtpt, 156, 4>>, <<sig_wtpt, 160, 4>> >>,
             <<1, 2, 3, 4, 5, 6, 7, 8, 9, 9, 9, 9>>)

InitFile ==
    /\ \E ts \in FileTagLists : InitApp(ts)
    /\ disk = [NoFiles EXCEPT !["foreign.icc"] = RepeatedSigFile]

ToggleHeaderMode ==
    \E r \in {toggle_header_mode(header_values_hex, header_vars, header_mode)} :
        /\ pc' = "toggle_header_mode"
        /\ ret' = [ok |-> r.ok]
        /\ header_mode' = r.header_mode
        /\ header_values_hex' = r.values_hex
        /\ header_vars' = r.hvars
        /\ UNCHANGED <<tags, selected_tag, tag_table, disk, next_id, workspace>>

EditHeaderField ==
    \* the user changes the widget of one header field
    \E e \in EditsOf(header_mode) :
        /\ disk["profile.icc"] = <<>>
        /\ Cardinality(EditedKeys(header_values_hex, header_vars, header_mode) \cup {e[1]})
              <= MaxEdits
        /\ header_vars' = [header_vars EXCEPT ![e[1]] = e[2]]
        /\ pc' = "edit_header_field"
        /\ ret' = [ok |-> TRUE]
        /\ UNCHANGED <<header_mode, header_values_hex, tags, selected_tag, tag_table,
                       disk, next_id, workspace>>

SaveProfile ==
    \E n \in {NextSave(header_values_hex)} \cap 1..MaxSaves :
        \E b \in {build_profile_bytes(tags, header_values_hex, header_vars, header_mode,
                                      SaveClock(n))} :
            /\ pc' = "save_profile"
            /\ header_values_hex' = b.values_hex
            /\ header_vars' = b.hvars
            /\ \/ /\ ~b.ok
                  /\ ret' = [ok |-> FALSE, err |-> b.err]
                  /\ disk' = disk
               \/ /\ b.ok
                  /\ \E path \in {"", "profile.icc"} :
                        /\ ret' = [ok |-> TRUE, val |-> b.val, path |-> path]
                        /\ disk' = IF path = "" THEN disk ELSE [disk EXCEPT ![path] = b.val]
            /\ UNCHANGED <<header_mode, tags, selected_tag, tag_table, next_id, workspace>>

LoadProfile ==
    \E path \in {p \in Paths : disk[p] # <<>>} :
    \E r \in {load_profile(disk[path], header_values_hex, header_vars, header_mode, tags,
                           tag_table, next_id)} :
        /\ next_id <= MaxIds
        /\ pc' = "load_profile"
        /\ ret' = [ok |-> r.ok, accepted |-> r.accepted, err |-> r.err, path |-> path]
        /\ header_mode' = r.header_mode
        /\ header_values_hex' = r.values_hex
        /\ header_vars' = r.hvars
        /\ tags' = r.tags
        /\ tag_table' = r.rows
        /\ next_id' = IF r.accepted THEN next_id + Len(r.tags) ELSE next_id
        /\ workspace' = IF r.accepted
                        THEN table_refreshed(r, <<>>, selected_tag,
                                             detach(tags, selected_tag, workspace)).workspace
                        ELSE workspace
        /\ UNCHANGED <<selected_tag, disk>>

NextFile == ToggleHeaderMode \/ EditHeaderField \/ SaveProfile \/ LoadProfile

SpecFile == InitFile /\ [][NextFile]_vars

----------------------------------------------------------------------------
(* load_profile on files of any origin, and the selection of a loaded tag *)

MaxEntries == 2

sig_zzzz == <<122, 122, 122, 122>>

SigLists(n) ==
    \* a repeated signature, and signatures outside the library
    { [i \in 1..n |-> sig_wtpt],
      [i \in 1..n |-> IF i % 2 = 1 THEN sig_wtpt ELSE sig_zzzz],
      [i \in 1..n |-> IF i % 2 = 1 THEN sig_zzzz ELSE sig_desc] }

OffsetChoices == {-4, 0, 4, 8}

SizeChoices == {0, 4, 8}

ForeignBody == <<1, 2, 3, 4, 5, 6, 7, 8>>

Damages == {"acsp", "short", "count", "empty"}

Damaged(kind, file) ==
    CASE kind = "acsp"  -> [file EXCEPT ![37] = 65]
      [] kind = "short" -> SubSeq(file, 1, 131)
      [] kind = "count" -> [file EXCEPT ![132] = file[132] + 1]
      [] kind = "empty" -> SubSeq(file, 1, 128)

ForeignFile(sigs, offs, sizes) ==
    \* a directory whose entries point offs[i] bytes behind its end
    raw_file(ForeignHeader, Len(sigs),
             [i \in 1..Len(sigs) |-> <<sigs[i], 132 + 12 * Len(sigs) + offs[i], sizes[i]>>],
             ForeignBody)

InitLoad ==
    /\ InitApp(ExampleTags)
    /\ \E n \in 0..MaxEntries : \E sigs \in SigLists(n) :
          \/ \E offs \in [1..n -> OffsetChoices] : \E sizes \in [1..n -> SizeChoices] :
                disk = [NoFiles EXCEPT !["foreign.icc"] = ForeignFile(sigs, offs, sizes)]
          \/ \E kind \in Damages :
                disk = [NoFiles EXCEPT !["foreign.icc"] =
                           Damaged(kind, ForeignFile(sigs, [i \in 1..n |-> 0],
                                                     [i \in 1..n |-> 4]))]

SelectTag ==
    \* a row of the table is clicked: <<TreeviewSelect>> with that row selected
    \E selection \in {tag_table[i] : i \in 1..Len(tag_table)} :
    \E r \in {tag_selected(tags, selected_tag,
                           [workspace EXCEPT !.selection = <<selection>>])} :
        /\ selected_tag' = r.selected
        /\ workspace' = r.workspace
        /\ pc' = "on_tag_selected"
        /\ ret' = [ok |-> r.ok, selection |-> selection]
        /\ UNCHANGED <<header_mode, header_values_hex, header_vars, tags, tag_table,
                       disk, next_id>>

NextLoad == LoadProfile \/ SelectTag

SpecLoad == InitLoad /\ [][NextLoad]_vars

----------------------------------------------------------------------------
(* Properties of save_profile and load_profile (SpecFile) *)

Saved == pc = "save_profile" /\ ret.ok

Zeroed(profile) ==
    \* the profile with bytes 84 .. 99 set to zero
    [i \in 1..Len(profile) |-> IF i \in 85..100 THEN 0 ELSE profile[i]]

\* C4: the bytes that build_profile_bytes returns are as many as the total size
\* of the layout, so that the size mismatch is never raised, and bytes 0-3 hold
\* that length in big-endian order whatever size the header held before.
C4_LengthIsTotal ==
    pc = "save_profile" =>
        IF ret.ok
        THEN /\ Len(ret.val) = _layout_tags(tags).total_size
             /\ SubSeq(ret.val, 1, 4) = pack_u32(Len(ret.val))
             /\ header_values_hex["size"] = int_to_hex(Len(ret.val), 4).val
        ELSE ret.err # "Profile size mismatch while building ICC."

C4_Witness ==
    /\ Saved
    /\ Len(tags) = 2
    /\ tags[1].signature = tags[2].signature
    /\ Len(ret.val) = 164
    /\ SubSeq(ret.val, 1, 4) = <<0, 0, 0, 164>>

\* C5: hashing the returned bytes with bytes 84-99 set to zero gives bytes
\* 84-99, and outside these bytes the result is the image that was hashed:
\* the header with a zero identifier, the directory and the data section.
C5_IdentifierIsHash ==
    Saved =>
        /\ SubSeq(ret.val, 85, 100) = md5_digest(Zeroed(ret.val))
        /\ header_values_hex["profile_id"] = bytes_hex_upper(SubSeq(ret.val, 85, 100))
        /\ Zeroed(ret.val)
              = build_header_bytes([header_values_hex EXCEPT !["profile_id"] = Repeat(48, 32)],
                                   Len(ret.val)).val
                \o tag_table_of(tags, _layout_tags(tags).layout)
                \o _layout_tags(tags).data_blocks

C5_Witness ==
    /\ Saved
    /\ ret.path = "profile.icc"
    /\ header_values_hex["date_time"] = datetime_text_to_hex(datetime_text(SaveClock(2))).val
    /\ SubSeq(ret.val, 85, 100) = md5_digest(Zeroed(ret.val))
    /\ SubSeq(ret.val, 85, 100) # Repeat(0, 16)

SameOutside(a, b) ==
    \* equal except in the size (0-3), date-time (24-35) and identifier (84-99)
    /\ Len(a) = Len(b)
    /\ \A i \in 1..Len(a) : i \in (1..4) \cup (25..36) \cup (85..100) \/ a[i] = b[i]

Reassembled ==
    build_profile_bytes(tags, header_values_hex, header_vars, header_mode,
                        SaveClock(MaxSaves + 1))

\* C6: after load_profile has loaded a profile that save_profile wrote,
\* assembling again without an edit gives the bytes of the file except in the
\* size, date-time and identifier fields.
C6_RoundTrip ==
    (pc = "load_profile" /\ ret.accepted /\ ret.path = "profile.icc") =>
        /\ Reassembled.ok
        /\ SameOutside(Reassembled.val, disk["profile.icc"])

----------------------------------------------------------------------------
(* Properties of load_profile (SpecLoad) *)

DirCount(data) == unpack_u32(SubSeq(data, 129, 132))

DirSig(data, i) == SubSeq(data, 121 + 12 * i, 124 + 12 * i)

DirOffset(data, i) == unpack_u32(SubSeq(data, 125 + 12 * i, 128 + 12 * i))

DirSize(data, i) == unpack_u32(SubSeq(data, 129 + 12 * i, 132 + 12 * i))

WellFormed(data) ==
    \* the conditions under which a file may be accepted
    /\ Len(data) >= 132
    /\ SubSeq(data, 37, 40) = <<97, 99, 115, 112>>
    /\ 132 + 12 * DirCount(data) <= Len(data)
    /\ \A i \in 1..DirCount(data) :
          /\ 132 + 12 * DirCount(data) <= DirOffset(data, i)
          /\ DirOffset(data, i) + DirSize(data, i) <= Len(data)

ExpectedFailure(data) ==
    \* the failure that names the first condition that does not hold
    IF Len(data) < 132 THEN "File too small to be a valid ICC profile."
    ELSE IF SubSeq(data, 37, 40) # <<97, 99, 115, 112>>
    THEN "Missing required 'acsp' signature."
    ELSE IF 132 + 12 * DirCount(data) > Len(data) THEN "Tag table exceeds file size."
    ELSE LET bad == {i \in 1..DirCount(data) :
                        \/ DirOffset(data, i) < 132 + 12 * DirCount(data)
                        \/ DirOffset(data, i) + DirSize(data, i) > Len(data)}
             first == CHOOSE i \in bad : \A j \in bad : i <= j
         IN  IF DirOffset(data, first) + DirSize(data, first) > Len(data)
             THEN "Tag out of bounds"
             ELSE "Tag overlaps header/tag table"

\* C7: load_profile accepts a file only if it has at least 132 bytes, 'acsp' at
\* bytes 36-39, a directory that ends within the file and only entries with
\* 132 + 12*count <= offset and offset + size <= length; a file that misses one
\* of these makes the load fail with the failure of the first condition that
\* does not hold, and the header and the tag list stay as they were.
C7_LoadValidates ==
    [][(pc' = "load_profile" /\ ~WellFormed(disk[ret'.path])) =>
          /\ ~ret'.accepted
          /\ ~ret'.ok
          /\ ret'.err = ExpectedFailure(disk[ret'.path])
          /\ UNCHANGED <<header_mode, header_values_hex, header_vars, tags,
                         tag_table, next_id>>]_vars

C7_Witness ==
    /\ pc = "load_profile"
    /\ ~ret.accepted
    /\ ret.err = "Tag out of bounds"
    /\ DirCount(disk["foreign.icc"]) = 2
    /\ DirOffset(disk["foreign.icc"], 1) = 156
    /\ DirOffset(disk["foreign.icc"], 2) + DirSize(disk["foreign.icc"], 2) = 168
    /\ Len(disk["foreign.icc"]) = 164
    /\ [i \in 1..Len(tags) |-> tags[i].signature]
          = [i \in 1..Len(ExampleTags) |-> ExampleTags[i].signature]

TagsAsDirectory(ts, data) ==
    \* one tag per directory entry, in directory order, with the bytes it names
    /\ Len(ts) = DirCount(data)
    /\ \A i \in 1..Len(ts) :
          /\ ts[i].signature = DirSig(data, i)
          /\ TagBytes(ts, i)
                = SubSeq(data, DirOffset(data, i) + 1, DirOffset(data, i) + DirSize(data, i))
          /\ ts[i].signature = sig_zzzz => ts[i].description = "Custom tag"
          /\ ts[i].signature = sig_wtpt => ts[i].description = "Media white point"

\* C8: the load of a file that passes the validation succeeds, and the tag
\* list then has one entry per directory entry, in directory order, each with
\* the file bytes [offset, offset + size); repeated signatures and signatures
\* outside the library are kept, the latter described as "Custom tag"; selecting
\* a row selects the first tag with the signature of the row.
C8_LoadedTags ==
    /\ (pc = "load_profile" /\ WellFormed(disk[ret.path])) =>
          /\ ret.ok
          /\ TagsAsDirectory(tags, disk[ret.path])
    /\ pc = "on_tag_selected" =>
          \E i \in 1..Len(tags) :
              /\ tags[i].signature = ret.selection
              /\ \A j \in 1..(i - 1) : tags[j].signature # ret.selection
              /\ selected_tag = <<tags[i].id>>

\* What load_profile does keep: the tag list of every file that passes the
\* validation is the directory of the file, whether or not the load then
\* completes.
LoadedTagsKept ==
    (pc = "load_profile" /\ WellFormed(disk[ret.path])) =>
        /\ ret.accepted
        /\ TagsAsDirectory(tags, disk[ret.path])

RepeatedSignatureLoad ==
    \* the load of a directory with two wtpt entries has stopped in refresh_tag_table
    /\ pc = "load_profile"
    /\ ret.accepted
    /\ ~ret.ok
    /\ Len(tags) = 2
    /\ tags[1].signature = sig_wtpt
    /\ tags[2].signature = sig_wtpt
    /\ tag_table = <<sig_wtpt>>

----------------------------------------------------------------------------
(* The field codecs as functions of their arguments (SpecCodec) *)

HexTexts ==
    \* "1", "ab", "ABCDEF", "12345678", "123456789A", "12 34", ""
    { <<49>>, <<97, 98>>, <<65, 66, 67, 68, 69, 70>>,
      <<49, 50, 51, 52, 53, 54, 55, 56>>,
      <<49, 50, 51, 52, 53, 54, 55, 56, 57, 65>>,
      <<49, 50, 32, 51, 52>>, <<>> }

HexEntryKeys == {"flags", "attributes", "reserved"}

HexCalls ==
    { [fn |-> fn, field |-> FieldOf(key), text |-> text] :
        fn \in {"normalize_hex_length", "field_bytes"}, key \in HexEntryKeys,
        text \in HexTexts }

FixedValues ==
    \* 0, 1, 0.5, -0.5, 0.9642, -1.25, 0.00001, 0.000007, -0.00001, 32767,
    \* 32767.9999, -32768, and outside the range 32768, -32769, 40000.5, -32768.5
    { [num |-> 0, places |-> 0], [num |-> 1, places |-> 0], [num |-> 5, places |-> 1],
      [num |-> -5, places |-> 1], [num |-> 9642, places |-> 4],
      [num |-> -125, places |-> 2], [num |-> 1, places |-> 5],
      [num |-> 7, places |-> 6], [num |-> -1, places |-> 5],
      [num |-> 32767, places |-> 0], [num |-> 327679999, places |-> 4],
      [num |-> -32768, places |-> 0], [num |-> 32768, places |-> 0],
      [num |-> -32769, places |-> 0], [num |-> 400005, places |-> 1],
      [num |-> -327685, places |-> 1] }

XyzTriples ==
    \* one component from FixedValues beside two components of D50
    { [i \in 1..3 |-> IF i = k THEN v ELSE [num |-> 9642, places |-> 4]] :
        k \in 1..3, v \in FixedValues }

unsigned_form(w) ==
    \* w & 0xFFFFFFFF, the word as struct's ">I" reads it
    [hi |-> (w \div 65536) % 65536, lo |-> w % 65536]

FixedCalls ==
    { [fn |-> "from_s15fixed16", value |-> v, form |-> form] :
        v \in {x \in FixedValues : FixedFits(x)}, form \in {"signed", "unsigned"} }
    \cup { [fn |-> fn, xyz |-> xyz] :
             fn \in {"build_xyz_bytes", "xyz_components_to_hex"}, xyz \in XyzTriples }

identity_matrix12 ==
    \* the texts of the matrix entries of a new MHC2 tag
    [k \in 1..12 |-> IF k \in {1, 6, 11} THEN <<49, 46, 48>> ELSE <<48, 46, 48>>]

MatrixTexts ==
    \* the identity; an entry that is no number; an entry of 40000
    { identity_matrix12,
      [identity_matrix12 EXCEPT ![2] = <<120>>],
      [identity_matrix12 EXCEPT ![12] = <<52, 48, 48, 48, 48>>] }

HeldLuts ==
    \* none; three channels of two samples; the same with a sample of 40000.5;
    \* two channels only
    { <<>>,
      [c \in 1..3 |-> << [num |-> 0, places |-> 0], [num |-> 5, places |-> 1] >>],
      [c \in 1..3 |-> << [num |-> 0, places |-> 0],
                          IF c = 2 THEN [num |-> 400005, places |-> 1]
                          ELSE [num |-> 1, places |-> 0] >>],
      [c \in 1..2 |-> << [num |-> 0, places |-> 0], [num |-> 1, places |-> 0] >>] }

Mhc2Calls ==
    { [fn |-> "build_mhc2_bytes", min_nits |-> v, peak_nits |-> [num |-> 100, places |-> 0],
       lut_entries |-> n, matrix_vars |-> identity_matrix12, lut_values |-> <<>>] :
        v \in FixedValues, n \in {0, 2} }
    \cup { [fn |-> "build_mhc2_bytes", min_nits |-> [num |-> 5, places |-> 1], peak_nits |-> v,
            lut_entries |-> n, matrix_vars |-> mv, lut_values |-> held] :
             v \in {[num |-> 100, places |-> 0], [num |-> 32768, places |-> 0]},
             n \in {-1, 0, 2}, mv \in MatrixTexts, held \in HeldLuts }

SigTexts ==
    \* "ABCD", "AB", "AB  ", "", "   ", "ABCDE", "ABCD ", " AB", "ab c", and
    \* with U+00E9: "é", "ABCé", "ABCDé"
    { <<65, 66, 67, 68>>, <<65, 66>>, <<65, 66, 32, 32>>, <<>>, <<32, 32, 32>>,
      <<65, 66, 67, 68, 69>>, <<65, 66, 67, 68, 32>>, <<32, 65, 66>>,
      <<97, 98, 32, 99>>, <<233>>, <<65, 66, 67, 233>>, <<65, 66, 67, 68, 233>> }

SigHexes ==
    \* "41424344", "00000000", "FF424344", "e9424344", "4142", "4142434445"
    { <<52, 49, 52, 50, 52, 51, 52, 52>>, <<48, 48, 48, 48, 48, 48, 48, 48>>,
      <<70, 70, 52, 50, 52, 51, 52, 52>>, <<101, 57, 52, 50, 52, 51, 52, 52>>,
      <<52, 49, 52, 50>>, <<52, 49, 52, 50, 52, 51, 52, 52, 52, 53>> }

SigCalls ==
    { [fn |-> "sig_to_hex", text |-> text] : text \in SigTexts }
    \cup { [fn |-> "human_to_hex", field |-> FieldOf(key), text |-> text] :
             key \in {"manufacturer", "model", "creator"}, text \in SigTexts }
    \cup { [fn |-> "hex_to_sig", hex_str |-> h] : h \in SigHexes }

MaxMajor == 255

MaxDigit == 9

VersionWord(major, minor, bugfix) ==
    \* the eight hex digits of (major << 24) | (minor << 20) | (bugfix << 16)
    HexDigitsOf(major, 2) \o HexDigitsOf(minor, 1) \o HexDigitsOf(bugfix, 1)
    \o <<48, 48, 48, 48>>

VersionShapes == {"major", "major.minor", "major.minorbugfix", " major.minor ", "major."}

VersionText(shape, major, minor, bugfix) ==
    CASE shape = "major" -> DecText(major)
      [] shape = "major.minor" -> DecText(major) \o <<46>> \o DecText(minor)
      [] shape = "major.minorbugfix" ->
            DecText(major) \o <<46>> \o DecText(minor) \o DecText(bugfix)
      [] shape = " major.minor " -> <<32>> \o DecText(major) \o <<46>> \o DecText(minor) \o <<32>>
      [] shape = "major." -> DecText(major) \o <<46>>

VersionCalls ==
    { [fn |-> "hex_to_version", hex_str |-> VersionWord(major, minor, bugfix)] :
        major \in 0..MaxMajor, minor \in 0..MaxDigit, bugfix \in 0..MaxDigit }
    \cup { [fn |-> "version_to_hex", shape |-> shape, major |-> major, minor |-> minor,
            bugfix |-> bugfix, text |-> VersionText(shape, major, minor, bugfix)] :
             shape \in VersionShapes, major \in {0, 4, 127, 128, MaxMajor, MaxMajor + 1},
             minor \in {0, 4, MaxDigit}, bugfix \in {0, 3} }

FlagWords == (0..7) \cup {65536, 65537, 2147483646}

FlagTexts ==
    \* the four choices, " EMBEDDED ", "NOT INDEPENDENT" and "x"
    { txt_Embedded, txt_NotEmbedded, txt_Independent, txt_NotIndependent,
      <<32, 69, 77, 66, 69, 68, 68, 69, 68, 32>>,
      <<78, 79, 84, 32, 73, 78, 68, 69, 80, 69, 78, 68, 69, 78, 84>>, <<120>> }

FlagCalls ==
    { [fn |-> "decode_flags", hex_str |-> HexDigitsOf(w, 8)] : w \in FlagWords }
    \cup { [fn |-> "encode_flags", embedded |-> e, independent |-> i] :
             e \in FlagTexts, i \in FlagTexts }

CodecCalls ==
    HexCalls \cup FixedCalls \cup Mhc2Calls \cup SigCalls \cup VersionCalls \cup FlagCalls

InitCodec ==
    \* the state that __init__ leaves, and the call that is made next
    \E hv \in {default_header_values_hex(DefaultClock)} :
    \E r \in {refresh_tag_table(ExampleTags, hv, render_header_fields(hv, "human"),
                                "human", <<>>)} :
        /\ header_mode = "human"
        /\ header_values_hex = r.values_hex
        /\ header_vars = r.hvars
        /\ tags = r.tags
        /\ selected_tag = <<>>
        /\ tag_table = r.rows
        /\ next_id = Len(ExampleTags) + 1
        /\ workspace = NewWorkspace
        /\ disk = NoFiles
        /\ pc = "init"
        /\ \E call \in CodecCalls : ret = call

Called(fn) == pc = "init" /\ ret.fn = fn

Returned(fn, call, result) ==
    /\ pc' = fn
    /\ ret' = [call |-> call, result |-> result]
    /\ UNCHANGED <<header_mode, header_values_hex, header_vars, tags, selected_tag,
                   tag_table, disk, next_id, workspace>>

NormalizeHexLength ==
    /\ Called("normalize_hex_length")
    /\ Returned("normalize_hex_length", ret, normalize_hex_length(ret.field, ret.text))

FieldBytes ==
    /\ Called("field_bytes")
    /\ Returned("field_bytes", ret, field_bytes(ret.field, ret.text))

FromS15Fixed16 ==
    \* the word that to_s15fixed16 gives, read back in one of its two forms
    /\ Called("from_s15fixed16")
    /\ Returned("from_s15fixed16", ret,
                from_s15fixed16(IF ret.form = "signed"
                                THEN halves(to_s15fixed16(ret.value))
                                ELSE unsigned_form(to_s15fixed16(ret.value))))

BuildXyzBytes ==
    /\ Called("build_xyz_bytes")
    /\ Returned("build_xyz_bytes", ret, build_xyz_bytes(ret.xyz[1], ret.xyz[2], ret.xyz[3]))

XyzComponentsToHex ==
    /\ Called("xyz_components_to_hex")
    /\ Returned("xyz_components_to_hex", ret,
                xyz_components_to_hex(ret.xyz[1], ret.xyz[2], ret.xyz[3]))

BuildMhc2Bytes ==
    /\ Called("build_mhc2_bytes")
    /\ Returned("build_mhc2_bytes", ret,
                build_mhc2_bytes(ret.min_nits, ret.peak_nits, ret.lut_entries,
                                 ret.matrix_vars, ret.lut_values))

SigToHex ==
    /\ Called("sig_to_hex")
    /\ Returned("sig_to_hex", ret, sig_to_hex(ret.text))

HumanToHex ==
    /\ Called("human_to_hex")
    /\ Returned("human_to_hex", ret, human_to_hex(ret.field, ret.text))

HexToSig ==
    /\ Called("hex_to_sig")
    /\ Returned("hex_to_sig", ret, hex_to_sig(ret.hex_str))

HexToVersion ==
    /\ Called("hex_to_version")
    /\ Returned("hex_to_version", ret, hex_to_version(ret.hex_str))

VersionToHex ==
    /\ Called("version_to_hex")
    /\ Returned("version_to_hex", ret, version_to_hex(ret.text))

DecodeFlags ==
    /\ Called("decode_flags")
    /\ Returned("decode_flags", ret, decode_flags(ret.hex_str))

EncodeFlags ==
    /\ Called("encode_flags")
    /\ Returned("encode_flags", ret, encode_flags(ret.embedded, ret.independent))

NextCodec ==
    \/ DecodeFlags
    \/ EncodeFlags
    \/ HexToVersion
    \/ VersionToHex
    \/ SigToHex
    \/ HumanToHex
    \/ HexToSig
    \/ NormalizeHexLength
    \/ FieldBytes
    \/ FromS15Fixed16
    \/ BuildXyzBytes
    \/ XyzComponentsToHex
    \/ BuildMhc2Bytes

SpecCodec == InitCodec /\ [][NextCodec]_vars

----------------------------------------------------------------------------
(* Properties of the field codecs (SpecCodec) *)

LeftPadded(digits, width) ==
    \* digits cut to width, or with zeros in front up to width
    IF Len(digits) >= width THEN SubSeq(digits, 1, width)
    ELSE Repeat(48, width - Len(digits)) \o digits

\* C11: hex that is shorter than the field is filled with zeros on the left up
\* to the field length, so that the given digits are the low-order bytes, and
\* longer hex is cut to the field length, in normalize_hex_length and in
\* build_header_bytes alike.
C11_LeftPad ==
    /\ pc = "normalize_hex_length" =>
          ret.result = LeftPadded(upper(clean_hex(ret.call.text)), 2 * ret.call.field.length)
    /\ (pc = "field_bytes" /\ ret.result.ok) =>
          bytes_hex_upper(ret.result.val)
             = LeftPadded(upper(clean_hex(ret.call.text)), 2 * ret.call.field.length)

RightPadded(digits, width) ==
    IF Len(digits) >= width THEN SubSeq(digits, 1, width)
    ELSE digits \o Repeat(48, width - Len(digits))

\* What the two functions do with short hex: the zeros follow the given digits.
ShortHexFilledBehind ==
    /\ pc = "normalize_hex_length" =>
          ret.result = RightPadded(upper(clean_hex(ret.call.text)), 2 * ret.call.field.length)
    /\ (pc = "field_bytes" /\ ret.result.ok) =>
          bytes_hex_upper(ret.result.val)
             = RightPadded(upper(clean_hex(ret.call.text)), 2 * ret.call.field.length)

Abs(n) == IF n < 0 THEN 0 - n ELSE n

Whole(v) == v.num \div (10 ^ v.places)

IsScaled(n, v) ==
    \* n is the integer nearest to v * 65536: with v = Whole(v) + r / 10^places,
    \* 2 * |n - v * 65536| <= 1, both sides multiplied by 5^places
    2 * Abs((n - Whole(v) * 65536) * (5 ^ v.places)
            - (v.num % (10 ^ v.places)) * (2 ^ (16 - v.places)))
       <= 5 ^ v.places

InWordRange(v) ==
    \* the integer nearest to v * 65536 is in -2^31 .. 2^31 - 1; the values of
    \* the model are not within 2^-17 of a bound of the range
    Whole(v) \in -32768..32767

WordAt(b, at) == unpack_i32(SubSeq(b, at + 1, at + 4))

\* C12: a value whose scaled value is in -2^31 .. 2^31 - 1 comes back from
\* from_s15fixed16, for the signed and for the unsigned form of its word, as
\* the nearest multiple of 1/65536; a value whose scaled value is outside
\* makes the encoding of an XYZ tag, of the header illuminant and of an MHC2
\* tag fail, and inside the range the encoders store the scaled value.
C12_FixedPoint ==
    /\ pc = "from_s15fixed16" =>
          /\ InWordRange(ret.call.value)
          /\ ret.result.den = 65536
          /\ IsScaled(ret.result.num, ret.call.value)
    /\ pc = "build_xyz_bytes" =>
          /\ ret.result.ok <=> \A i \in 1..3 : InWordRange(ret.call.xyz[i])
          /\ ret.result.ok =>
                /\ Len(ret.result.val) = 20
                /\ \A i \in 1..3 : IsScaled(WordAt(ret.result.val, 4 + 4 * i), ret.call.xyz[i])
                /\ \A i \in 1..3 : IsScaled(parse_xyz(ret.result.val).val[i].num, ret.call.xyz[i])
    /\ pc = "xyz_components_to_hex" =>
          /\ ret.result.ok <=> \A i \in 1..3 : InWordRange(ret.call.xyz[i])
          /\ ret.result.ok =>
                \A i \in 1..3 :
                    IsScaled(hex_to_xyz_components(ret.result.val).val[i].num, ret.call.xyz[i])
    /\ pc = "build_mhc2_bytes" =>
          /\ ~InWordRange(ret.call.min_nits) => ~ret.result.ok
          /\ ~InWordRange(ret.call.peak_nits) => ~ret.result.ok
          /\ (\E k \in 1..12 : /\ parse_float(ret.call.matrix_vars[k]).ok
                               /\ ~InWordRange(parse_float(ret.call.matrix_vars[k]).val))
                => ~ret.result.ok
          /\ ret.result.ok =>
                /\ IsScaled(WordAt(ret.result.val, 12), ret.call.min_nits)
                /\ IsScaled(WordAt(ret.result.val, 16), ret.call.peak_nits)

C12_Witness ==
    /\ pc = "from_s15fixed16"
    /\ ret.call.form = "unsigned"
    /\ ret.call.value = [num |-> -125, places |-> 2]
    /\ ret.result = [num |-> -81920, den |-> 65536]

IsAscii(text) == \A i \in 1..Len(text) : text[i] < 128

SigCoding ==
    \* sig_to_hex fails unless the text has 4 characters, all of them ASCII
    pc = "sig_to_hex" =>
        /\ ret.result.ok <=> (Len(ret.call.text) = 4 /\ IsAscii(ret.call.text))
        /\ ret.result.ok => bytes_fromhex(ret.result.val).val = ret.call.text

SigDecoding ==
    \* hex_to_sig gives the text of ASCII bytes and the uppercase hex of others
    pc = "hex_to_sig" =>
        LET b == PairBytes(SubSeq(ret.call.hex_str, 1,
                                  IF Len(ret.call.hex_str) < 8 THEN Len(ret.call.hex_str)
                                  ELSE 8))
        IN  ret.result = IF \A i \in 1..Len(b) : b[i] < 128 THEN b
                         ELSE upper(SubSeq(ret.call.hex_str, 1, 8))

LimitedCall == pc = "human_to_hex" /\ ret.call.field.type = "sig-limited"

LimitedEncoded(cleaned) ==
    \* spaces behind the text up to 4 bytes, and zero bytes for the empty text
    /\ ret.result.ok
    /\ bytes_fromhex(ret.result.val).val
          = IF cleaned = <<>> THEN <<0, 0, 0, 0>>
            ELSE cleaned \o Repeat(32, 4 - Len(cleaned))

Given(call, part) ==
    \* the number that the text of the call holds for minor or bugfix
    CASE part = "minor" -> IF call.shape \in {"major", "major."} THEN 0 ELSE call.minor
      [] part = "bugfix" -> IF call.shape = "major.minorbugfix" THEN call.bugfix ELSE 0

\* C14: version_to_hex encodes 'major[.minor[bugfix]]' as the bytes of
\* (major << 24) | (minor << 20) | (bugfix << 16) with 0 for absent digits;
\* hex_to_version prints 'major.minor' and the bugfix digit only when it is
\* not 0; for major in 0..255 and minor, bugfix in 0..9 the word comes back
\* from version_to_hex(hex_to_version(w)).
C14_Version ==
    /\ pc = "version_to_hex" =>
          /\ ret.result.ok <=> (ret.call.major <= MaxMajor /\ ret.call.shape # "major.")
          /\ ret.result.ok =>
                bytes_fromhex(ret.result.val).val
                   = <<ret.call.major,
                       16 * Given(ret.call, "minor") + Given(ret.call, "bugfix"), 0, 0>>
    /\ pc = "hex_to_version" =>
          LET b == PairBytes(ret.call.hex_str)
          IN  /\ ret.result = DecText(b[1]) \o <<46>> \o DecText(b[2] \div 16)
                                 \o (IF b[2] % 16 = 0 THEN <<>> ELSE DecText(b[2] % 16))
              /\ version_to_hex(ret.result).ok
              /\ version_to_hex(ret.result).val = ret.call.hex_str

C14_Witness ==
    /\ pc = "hex_to_version"
    /\ ret.call.hex_str = <<70, 70, 57, 51, 48, 48, 48, 48>>
    /\ ret.result = <<50, 53, 53, 46, 57, 51>>

FlagBit(hex_str, k) == (HexVal(hex_str[Len(hex_str)]) \div (2 ^ k)) % 2

\* C15: decode_flags says 'Embedded' exactly when bit 0 of the word is set
\* and 'Not independent' exactly when bit 1 is set; for the words 0..3
\* encode_flags(decode_flags(w)) = w, and encode_flags sets bit 1 for
\* 'Not independent' and bit 0 for 'Embedded'.
C15_Flags ==
    /\ pc = "decode_flags" =>
          /\ ret.result[1] = IF FlagBit(ret.call.hex_str, 0) = 1
                             THEN <<69, 109, 98, 101, 100, 100, 101, 100>>
                             ELSE <<78, 111, 116, 32, 101, 109, 98, 101, 100, 100, 101, 100>>
          /\ ret.result[2] = IF FlagBit(ret.call.hex_str, 1) = 1
                             THEN <<78, 111, 116, 32, 105, 110, 100, 101, 112, 101, 110,
                                    100, 101, 110, 116>>
                             ELSE <<73, 110, 100, 101, 112, 101, 110, 100, 101, 110, 116>>
          /\ SubSeq(ret.call.hex_str, 1, 7) = <<48, 48, 48, 48, 48, 48, 48>>
             /\ HexVal(ret.call.hex_str[8]) <= 3
                => encode_flags(ret.result[1], ret.result[2]) = Ok(ret.call.hex_str)
    /\ (pc = "encode_flags"
        /\ ret.call.embedded \in {txt_Embedded, txt_NotEmbedded}
        /\ ret.call.independent \in {txt_Independent, txt_NotIndependent}) =>
          /\ ret.result.ok
          /\ SubSeq(ret.result.val, 1, 7) = <<48, 48, 48, 48, 48, 48, 48>>
          /\ FlagBit(ret.result.val, 0) = 1 <=> ret.call.embedded = txt_Embedded
          /\ FlagBit(ret.result.val, 1) = 1 <=> ret.call.independent = txt_NotIndependent
          /\ HexVal(ret.result.val[8]) <= 3

C15_Witness ==
    /\ pc = "decode_flags"
    /\ ret.call.hex_str = <<48, 48, 48, 48, 48, 48, 48, 50>>
    /\ ret.result = <<txt_NotEmbedded, txt_NotIndependent>>
    /\ encode_flags(ret.result[1], ret.result[2]).val = ret.call.hex_str

----------------------------------------------------------------------------
(* The tag type codecs as functions of their arguments (SpecTag) *)

MaxRecords == 2

MaxSamples == 3

MaxLutEntries == 3

MaxTextLen == 4

MlucTexts ==
    \* "", "A", "Test", "e" with acute accent, U+1F600, "A" + U+1F600, three kanji
    { <<>>, <<65>>, <<84, 101, 115, 116>>, <<233>>, <<128512>>, <<65, 128512>>,
      <<26085, 26412, 35486>> }

MlucLocales == { <<<<101, 110>>, <<85, 83>>>>, <<<<106, 97>>, <<74, 80>>>> }

MlucRecordPool ==
    { [lang |-> loc[1], country |-> loc[2], text |-> text] :
        loc \in MlucLocales, text \in MlucTexts }

MlucRecordLists == UNION { [1..n -> MlucRecordPool] : n \in 0..MaxRecords }

MlucBuildCalls == { [fn |-> "build_mluc_bytes", records |-> r] : r \in MlucRecordLists }

UnsignedOf(b, at) == unpack_u32(SubSeq(b, at + 1, at + 4))

Patched(data, at, word) ==
    \* data with the four bytes at offset "at" replaced by a 32-bit word
    [i \in 1..Len(data) |-> IF i \in (at + 1)..(at + 4) THEN pack_u32(word)[i - at] ELSE data[i]]

MlucSound ==
    \* encodings of record lists, as build_mluc_bytes writes them
    { build_mluc_bytes(r).val :
        r \in { <<>>,
                <<[lang |-> <<101, 110>>, country |-> <<85, 83>>, text |-> <<84, 101, 115, 116>>]>>,
                <<[lang |-> <<101, 110>>, country |-> <<85, 83>>, text |-> <<65>>],
                  [lang |-> <<106, 97>>, country |-> <<74, 80>>, text |-> <<26085, 26412, 35486>>]>> } }

MlucDamaged(data) ==
    \* data as it is, cut short, with another type signature, record count,
    \* record size, text length or text offset
    {data}
    \cup { Slice(data, 0, n) : n \in {0, 15, 16, 27, 28, Len(data) - 2, Len(data) - 1} \cap 0..Len(data) }
    \cup { Patched(data, 0, 1835824483 + d) : d \in {1, 256} }
    \cup { Patched(data, 8, n) : n \in {0, 1, 2, 3, 1000} }
    \cup { Patched(data, 12, n) : n \in {0, 8, 11, 12, 13, 16, 20} }
    \cup (IF Len(data) < 28 THEN {}
          ELSE { Patched(data, 20, n) : n \in {0, 2, 4, 8, 10, 12, 65536} }
               \cup { Patched(data, 24, n) : n \in {0, 16, Len(data) - 8, Len(data) - 4,
                                                   Len(data), Len(data) + 4} })

MlucParseCalls ==
    { [fn |-> "parse_mluc", data |-> d] : d \in UNION { MlucDamaged(s) : s \in MlucSound } }

TrcSamples == {-1, 0, 256, 563, 65535, 65536}

\* self.trc_values holds at least one sample: parse_trc rejects a count of 0,
\* load_trc_from_file a file without values
TrcValueLists == UNION { [1..n -> TrcSamples] : n \in 1..MaxSamples }

TrcBuildCalls == { [fn |-> "build_trc_bytes", values |-> v] : v \in TrcValueLists }

TrcTail == <<1, 0, 2, 51, 255, 255, 0, 7>>

TrcData ==
    \* a type signature, four reserved bytes, a count and sample bytes, whole or cut short
    { Slice(sig \o <<0, 0, 0, 0>> \o pack_u32(count) \o Slice(TrcTail, 0, n), 0, cut) :
        sig \in {type_curv, type_mluc, <<99, 117, 114, 86>>},
        count \in {0, 1, 2, 3, 4, 5, 65536},
        n \in 0..Len(TrcTail),
        cut \in {0, 4, 11, 20} }

TrcParseCalls == { [fn |-> "parse_trc", data |-> d] : d \in TrcData }

Quarter == [num |-> 25, places |-> 2]

TagHeldLuts ==
    \* self.mhc2_lut_values: none held; three channels of k samples, each
    \* sample 0.25 or, in the last place of the last channel, 1; three
    \* channels the second of which is empty; two channels only
    { <<>> }
    \cup { [c \in 1..3 |-> [i \in 1..k |-> IF c = 3 /\ i = k THEN [num |-> 1, places |-> 0]
                                            ELSE Quarter]] : k \in 1..MaxLutEntries }
    \cup { [c \in 1..3 |-> IF c = 2 THEN <<>> ELSE [i \in 1..k |-> Quarter]] :
             k \in 1..MaxLutEntries }
    \cup { [c \in 1..2 |-> [i \in 1..k |-> Quarter]] : k \in 1..MaxLutEntries }

Mhc2BuildCalls ==
    { [fn |-> "build_mhc2_bytes", min_nits |-> [num |-> 5, places |-> 1],
       peak_nits |-> [num |-> 100, places |-> 0],
       lut_entries |-> n, matrix_vars |-> mv, lut_values |-> held] :
        n \in -1..MaxLutEntries, mv \in MatrixTexts, held \in TagHeldLuts }

Mhc2Sound ==
    \* encodings as build_mhc2_bytes writes them: no LUT; the identity ramp of
    \* two entries; a held LUT of MaxLutEntries entries
    { build_mhc2_bytes([num |-> 5, places |-> 1], [num |-> 100, places |-> 0], n,
                       identity_matrix12, held).val :
        n \in {0, 2, MaxLutEntries},
        held \in { <<>>, [c \in 1..3 |-> [i \in 1..MaxLutEntries |->
                                             IF c = 3 /\ i = MaxLutEntries
                                             THEN [num |-> -1, places |-> 0] ELSE Quarter]] } }

Mhc2Damaged(data) ==
    \* data as it is, cut short, with another type signature, entry count,
    \* matrix offset, LUT offset or nested signature
    {data}
    \cup { Slice(data, 0, n) : n \in {0, 35, 36, 83, 84, Len(data) - 4, Len(data) - 1} }
    \cup { Patched(data, 0, 1296581426 + d) : d \in {1, 256} }
    \cup { Patched(data, 8, n) : n \in {0, 1, 2, 3, 4, 1000} }
    \cup { Patched(data, 20, n) : n \in {0, 40, Len(data) - 44} }
    \cup { Patched(data, 20 + 4 * c, n) : c \in 1..3, n \in {0, 84, Len(data) - 8} }
    \cup (IF Len(data) < 92 THEN {}
          ELSE { Patched(data, UnsignedOf(data, 20 + 4 * c), 1936077618 + d) :
                    c \in 1..3, d \in {1, 65536} })

LumiLists ==
    \* self.tags without a lumi tag, with lumi = XYZ(0, 80, 0), and with a
    \* lumi tag that is no XYZ type
    { ExampleTags,
      <<NewTag(1, sig_lumi, <<88, 89, 90, 32, 0, 0, 0, 0, 0, 0, 0, 0, 0, 80, 0, 0, 0, 0, 0, 0>>)>>,
      <<NewTag(1, sig_lumi, <<1, 2, 3, 4>>)>> }

Mhc2ParseCalls ==
    { [fn |-> "parse_mhc2", data |-> d, tags |-> ExampleTags] :
        d \in UNION { Mhc2Damaged(s) : s \in Mhc2Sound } }
    \cup { [fn |-> "parse_mhc2", data |-> d, tags |-> ts] : d \in Mhc2Sound, ts \in LumiLists }

Mhc2RebuildCalls ==
    \* MHC2 tags, sound and damaged, whose matrix is the written one or none
    { [fn |-> "rebuild_mhc2_from_ui", data |-> d, tags |-> ExampleTags] :
        d \in { x \in UNION { Mhc2Damaged(s) : s \in Mhc2Sound } :
                  /\ parse_mhc2(x, ExampleTags).ok
                  /\ parse_mhc2(x, ExampleTags).val.count <= MaxLutEntries + 1
                  /\ \/ parse_mhc2(x, ExampleTags).val.matrix = <<>>
                     \/ parse_mhc2(x, ExampleTags).val.matrix_off = 36 } }

TextChars == {65, 32, 0, 233}

TextContents ==
    \* every text of at most MaxTextLen characters out of "A", " ", NUL and
    \* "e" with acute accent
    UNION { [1..n -> TextChars] : n \in 0..MaxTextLen }

TextBuildCalls == { [fn |-> "build_text_type", content |-> s] : s \in TextContents }

TextData ==
    \* text types as build_text_type writes them, whole, cut short and
    \* with another type signature
    UNION { { build_text_type(s), Slice(build_text_type(s), 0, 7),
              Patched(build_text_type(s), 0, 1952807029) } :
            s \in { <<>>, <<65>>, <<65, 32, 65, 65>>, <<65, 200, 0>> } }
    \cup { <<116, 101, 120, 116, 0, 0, 0, 0, 65, 200, 0, 66>> }

TextParseCalls == { [fn |-> "parse_text_type", data |-> d] : d \in TextData }

TagCalls ==
    MlucBuildCalls \cup MlucParseCalls \cup TrcBuildCalls \cup TrcParseCalls
    \cup Mhc2BuildCalls \cup Mhc2ParseCalls \cup TextBuildCalls \cup TextParseCalls
    \cup Mhc2RebuildCalls

InitTag ==
    \* the state that __init__ leaves, and the call that is made next
    \E hv \in {default_header_values_hex(DefaultClock)} :
    \E r \in {refresh_tag_table(ExampleTags, hv, render_header_fields(hv, "human"),
                                "human", <<>>)} :
        /\ header_mode = "human"
        /\ header_values_hex = r.values_hex
        /\ header_vars = r.hvars
        /\ tags = r.tags
        /\ selected_tag = <<>>
        /\ tag_table = r.rows
        /\ next_id = Len(ExampleTags) + 1
        /\ workspace = NewWorkspace
        /\ disk = NoFiles
        /\ pc = "init"
        /\ \E call \in TagCalls : ret = call

BuildMlucBytes ==
    /\ Called("build_mluc_bytes")
    /\ Returned("build_mluc_bytes", ret, build_mluc_bytes(ret.records))

ParseMluc ==
    /\ Called("parse_mluc")
    /\ Returned("parse_mluc", ret, parse_mluc(ret.data))

BuildTrcBytes ==
    /\ Called("build_trc_bytes")
    /\ Returned("build_trc_bytes", ret, build_trc_bytes(ret.values))

ParseTrc ==
    /\ Called("parse_trc")
    /\ Returned("parse_trc", ret, parse_trc(ret.data))

ParseMhc2 ==
    /\ Called("parse_mhc2")
    /\ Returned("parse_mhc2", ret, parse_mhc2(ret.data, ret.tags))

RebuildMhc2FromUi ==
    /\ Called("rebuild_mhc2_from_ui")
    /\ Returned("rebuild_mhc2_from_ui", ret, reencoded_mhc2(ret.data, ret.tags))

BuildTextType ==
    /\ Called("build_text_type")
    /\ Returned("build_text_type", ret, build_text_type(ret.content))

ParseTextType ==
    /\ Called("parse_text_type")
    /\ Returned("parse_text_type", ret, parse_text_type(ret.data))

NextTag ==
    \/ RebuildMhc2FromUi
    \/ BuildTextType
    \/ ParseTextType
    \/ ParseMhc2
    \/ BuildMlucBytes
    \/ ParseMluc
    \/ BuildTrcBytes
    \/ ParseTrc
    \/ BuildMhc2Bytes

SpecTag == InitTag /\ [][NextTag]_vars

----------------------------------------------------------------------------
(* Properties of the tag type codecs (SpecTag) *)

UnsignedAt(b, at) == unpack_u32(SubSeq(b, at + 1, at + 4))

RECURSIVE PaddedBefore(_, _)
PaddedBefore(records, i) ==
    \* the bytes that the texts of the records before record i take, each
    \* text filled up to a multiple of four bytes
    IF i <= 1 THEN 0
    ELSE PaddedBefore(records, i - 1) + Pad4(Len(encode_utf16be(records[i - 1].text).val))

SameLocalizedText(parsed, rec) ==
    /\ parsed.lang = rec.lang
    /\ parsed.country = rec.country
    /\ parsed.text = rec.text

\* C16: for every list of records with a two-character ASCII language and
\* country, build_mluc_bytes writes into table entry i a length and an offset
\* from the start of the tag data that address the UTF-16BE text of record i:
\* the offset is the end of the record table plus the padded lengths of the
\* texts before it (a function of the records alone, whatever the position of
\* the tag), it is a multiple of four, the text lies within the output, and
\* parse_mluc of the output returns the language, country and text of every
\* record in order.
C16_MlucRoundTrip ==
    pc = "build_mluc_bytes" =>
        /\ ret.result.ok
        /\ Len(ret.result.val) = 16 + 12 * Len(ret.call.records)
                                 + PaddedBefore(ret.call.records, Len(ret.call.records) + 1)
        /\ \A i \in 1..Len(ret.call.records) :
              /\ UnsignedAt(ret.result.val, 16 + 12 * (i - 1) + 4)
                     = Len(encode_utf16be(ret.call.records[i].text).val)
              /\ UnsignedAt(ret.result.val, 16 + 12 * (i - 1) + 8)
                     = 16 + 12 * Len(ret.call.records) + PaddedBefore(ret.call.records, i)
              /\ UnsignedAt(ret.result.val, 16 + 12 * (i - 1) + 8) % 4 = 0
              /\ UnsignedAt(ret.result.val, 16 + 12 * (i - 1) + 8)
                     + UnsignedAt(ret.result.val, 16 + 12 * (i - 1) + 4) <= Len(ret.result.val)
              /\ Slice(ret.result.val,
                       UnsignedAt(ret.result.val, 16 + 12 * (i - 1) + 8),
                       UnsignedAt(ret.result.val, 16 + 12 * (i - 1) + 8)
                       + UnsignedAt(ret.result.val, 16 + 12 * (i - 1) + 4))
                     = encode_utf16be(ret.call.records[i].text).val
        /\ parse_mluc(ret.result.val).ok
        /\ Len(parse_mluc(ret.result.val).val) = Len(ret.call.records)
        /\ \A i \in 1..Len(ret.call.records) :
              SameLocalizedText(parse_mluc(ret.result.val).val[i], ret.call.records[i])

C16_Witness ==
    /\ pc = "build_mluc_bytes"
    /\ Len(ret.call.records) = 2
    /\ ret.call.records[1].text = <<65, 128512>>
    /\ ret.call.records[2].text = <<26085, 26412, 35486>>
    /\ UnsignedAt(ret.result.val, 24) = 40
    /\ UnsignedAt(ret.result.val, 20) = 6
    /\ UnsignedAt(ret.result.val, 36) = 48
    /\ Len(ret.result.val) = 56
    /\ parse_mluc(ret.result.val).val[2].text = <<26085, 26412, 35486>>

RecordSize(data) == IF UnsignedAt(data, 12) >= 12 THEN UnsignedAt(data, 12) ELSE 12

EntryFits(data, i) == 16 + i * RecordSize(data) + 12 <= Len(data)

TextOutside(data, i) ==
    \* the text offset plus the text length of table entry i is beyond the data
    words_exceed(SubSeq(data, 16 + i * RecordSize(data) + 9, 16 + i * RecordSize(data) + 12),
                 SubSeq(data, 16 + i * RecordSize(data) + 5, 16 + i * RecordSize(data) + 8),
                 Len(data))

MlucMalformed(data) ==
    \/ Len(data) < 16
    \/ Slice(data, 0, 4) # <<109, 108, 117, 99>>
    \/ \E i \in 0..(UnsignedAt(data, 8) - 1) : ~EntryFits(data, i) \/ TextOutside(data, i)

\* C17: parse_mluc raises, and so returns no records, for data shorter than 16
\* bytes, data that does not start with 'mluc', a table entry that reaches
\* beyond the data, and an entry whose offset plus length is beyond the data;
\* for all other data it returns one record per table entry, entry i read at
\* 16 + i * size, where size is the record-size field, or 12 when the field
\* is below 12.
C17_MlucRejects ==
    pc = "parse_mluc" =>
        /\ MlucMalformed(ret.call.data) =>
              ~ret.result.ok /\ DOMAIN ret.result = {"ok", "err"}
        /\ ~MlucMalformed(ret.call.data) =>
              /\ ret.result.ok
              /\ Len(ret.result.val) = UnsignedAt(ret.call.data, 8)
              /\ \A i \in 0..(UnsignedAt(ret.call.data, 8) - 1) :
                    /\ ret.result.val[i + 1].lang
                         = decode_ascii_replace(SubSeq(ret.call.data,
                               16 + i * RecordSize(ret.call.data) + 1,
                               16 + i * RecordSize(ret.call.data) + 2))
                    /\ ret.result.val[i + 1].length
                         = UnsignedAt(ret.call.data, 16 + i * RecordSize(ret.call.data) + 4)
                    /\ ret.result.val[i + 1].offset
                         = UnsignedAt(ret.call.data, 16 + i * RecordSize(ret.call.data) + 8)

C17_Witness ==
    /\ pc = "parse_mluc"
    /\ Len(ret.call.data) = 52
    /\ Slice(ret.call.data, 0, 4) = <<109, 108, 117, 99>>
    /\ UnsignedAt(ret.call.data, 8) = 2
    /\ UnsignedAt(ret.call.data, 12) = 12
    /\ UnsignedAt(ret.call.data, 20) = 65536
    /\ ret.result = [ok |-> FALSE, err |-> "Record string out of bounds"]

RecordSizeBelow12 ==
    \* a record-size field of 8 with two table entries: the second is read at 28
    /\ pc = "parse_mluc"
    /\ Len(ret.call.data) = 52
    /\ UnsignedAt(ret.call.data, 8) = 2
    /\ UnsignedAt(ret.call.data, 12) = 8
    /\ ret.result.ok
    /\ ret.result.val[2].lang = <<106, 97>>

IsClamped(v, sample) ==
    \* sample is v limited to 0..65535
    /\ v < 0 => sample = 0
    /\ v > 65535 => sample = 65535
    /\ v \in 0..65535 => sample = v

TrcReturned(values, parsed) ==
    /\ parsed.ok
    /\ Len(parsed.val.values) = Len(values)
    /\ \A i \in 1..Len(values) : IsClamped(values[i], parsed.val.values[i])
    /\ Len(values) = 1 <=> parsed.val.gamma # <<>>
    /\ Len(values) = 1 =>
          /\ parsed.val.gamma[1].den = 256
          /\ IsClamped(values[1], parsed.val.gamma[1].num)

\* C18: for every non-empty sequence v of integer samples,
\* parse_trc(build_trc_bytes(v)) succeeds and returns the samples of v in
\* order, each limited to 0..65535, and it reports a gamma, the returned
\* sample divided by 256, exactly when v has one sample.
C18_TrcRoundTrip ==
    pc = "build_trc_bytes" => TrcReturned(ret.call.values, parse_trc(ret.result))

C18_Witness ==
    /\ pc = "build_trc_bytes"
    /\ ret.call.values = <<65536>>
    /\ ret.result = <<99, 117, 114, 118, 0, 0, 0, 0, 0, 0, 0, 1, 255, 255, 0, 0>>
    /\ parse_trc(ret.result) = Ok([values |-> <<65535>>,
                                   gamma |-> <<[num |-> 65535, den |-> 256]>>])

CurveRoundTrip ==
    \* three samples, the first two out of range: no gamma is reported
    /\ pc = "build_trc_bytes"
    /\ ret.call.values = <<65536, -1, 563>>
    /\ parse_trc(ret.result) = Ok([values |-> <<65535, 0, 563>>, gamma |-> <<>>])

TrcMalformed(data) ==
    \/ Len(data) < 12
    \/ Slice(data, 0, 4) # <<99, 117, 114, 118>>
    \/ UnsignedAt(data, 8) = 0
    \/ 12 + 2 * UnsignedAt(data, 8) > Len(data)

\* C19: parse_trc raises for data shorter than 12 bytes, data that does not
\* start with 'curv', a count of 0, and a count with fewer than count 16-bit
\* samples after the 12-byte prefix; for all other data it returns exactly
\* count samples, sample i being the big-endian unsigned 16-bit integer at
\* 12 + 2 * i.
C19_TrcRejects ==
    pc = "parse_trc" =>
        /\ TrcMalformed(ret.call.data) => ~ret.result.ok
        /\ ~TrcMalformed(ret.call.data) =>
              /\ ret.result.ok
              /\ Len(ret.result.val.values) = UnsignedAt(ret.call.data, 8)
              /\ \A i \in 0..(UnsignedAt(ret.call.data, 8) - 1) :
                    ret.result.val.values[i + 1]
                        = 256 * ret.call.data[12 + 2 * i + 1] + ret.call.data[12 + 2 * i + 2]

C19_Witness ==
    /\ pc = "parse_trc"
    /\ ret.call.data = <<99, 117, 114, 118, 0, 0, 0, 0, 0, 0, 0, 3, 1, 0, 2, 51, 255>>
    /\ ret.result = [ok |-> FALSE, err |-> "TRC data truncated"]

CurveParsed ==
    \* two samples and two bytes more: the samples are returned, the rest is not read
    /\ pc = "parse_trc"
    /\ ret.call.data = <<99, 117, 114, 118, 0, 0, 0, 0, 0, 0, 0, 2, 1, 0, 2, 51, 255, 255>>
    /\ ret.result = Ok([values |-> <<256, 563>>, gamma |-> <<>>])

Gamma1Parts ==
    \* 'curv', four reserved bytes, the count 00000001, the gamma 0100, the pad 0000
    <<99, 117, 114, 118>> \o <<0, 0, 0, 0>> \o <<0, 0, 0, 1>> \o <<1, 0>> \o <<0, 0>>

\* C20 as stated: the single entry 256 encodes to exactly 12 bytes, which are
\* the signature, the reserved bytes, the count, the gamma and the pad.
C20_Original ==
    (pc = "build_trc_bytes" /\ ret.call.values = <<256>>) =>
        /\ Len(ret.result) = 12
        /\ ret.result = Gamma1Parts

\* C20: the single entry 256 encodes to exactly 16 bytes: the 4-byte 'curv'
\* signature, 4 reserved zero bytes, the count 00000001, the gamma 0100 and
\* the pad 0000.
C20_Gamma1 ==
    (pc = "build_trc_bytes" /\ ret.call.values = <<256>>) =>
        /\ Len(ret.result) = 16
        /\ ret.result = Gamma1Parts

C20_Witness ==
    /\ pc = "build_trc_bytes"
    /\ ret.call.values = <<256>>
    /\ SubSeq(ret.result, 13, 14) = <<1, 0>>
    /\ parse_trc(ret.result).val.gamma = <<[num |-> 256, den |-> 256]>>

Mhc2Built ==
    \* build_mhc2_bytes has returned bytes for an entry count that is not negative
    pc = "build_mhc2_bytes" /\ ret.call.lut_entries >= 0 /\ ret.result.ok

LutBlockLen(n) == 8 + 4 * n

LutBlockAt(out, at, n) ==
    \* a block of 8 + 4n bytes lies at "at" within out and starts with 'sf32', 0000
    /\ at + LutBlockLen(n) <= Len(out)
    /\ SubSeq(out, at + 1, at + 8) = <<115, 102, 51, 50, 0, 0, 0, 0>>

Mhc2Layout(out, n, matrix_vars) ==
    /\ SubSeq(out, 1, 8) = <<77, 72, 67, 50, 0, 0, 0, 0>>
    /\ UnsignedAt(out, 8) = n
    /\ UnsignedAt(out, 20) = 36
    /\ Len(out) >= 84
    /\ \A k \in 1..12 :
          SubSeq(out, 36 + 4 * (k - 1) + 1, 36 + 4 * k)
              = pack_i32(to_s15fixed16(matrix_value(matrix_vars[k])))
    /\ n > 0 =>
          /\ UnsignedAt(out, 24) = 84
          /\ UnsignedAt(out, 28) = 84 + LutBlockLen(n)
          /\ UnsignedAt(out, 32) = 84 + 2 * LutBlockLen(n)
          /\ \A c \in 0..2 : LutBlockAt(out, 84 + c * LutBlockLen(n), n)
          /\ Len(out) = 84 + 3 * LutBlockLen(n)
    /\ n = 0 =>
          /\ UnsignedAt(out, 24) = 0
          /\ UnsignedAt(out, 28) = 0
          /\ UnsignedAt(out, 32) = 0
          /\ Len(out) = 84

\* C21: for every entry count n >= 0 the bytes build_mhc2_bytes returns are a
\* 36-byte header, the 48-byte matrix at offset 36 and, for n > 0, three LUT
\* blocks of 8 + 4n bytes at 84, 84 + (8 + 4n) and 84 + 2(8 + 4n); the
\* header's matrix offset is 36 and its three LUT offsets are those
\* positions; for n = 0 the LUT offsets are 0 and the output has 84 bytes;
\* the output ends with the last block.
C21_Mhc2Layout ==
    Mhc2Built => Mhc2Layout(ret.result.val, ret.call.lut_entries, ret.call.matrix_vars)

C21_Witness ==
    /\ Mhc2Built
    /\ ret.call.lut_entries = 3
    /\ ret.call.lut_values = <<>>
    /\ Len(ret.result.val) = 144
    /\ UnsignedAt(ret.result.val, 28) = 104
    /\ UnsignedAt(ret.result.val, 32) = 124
    /\ SubSeq(ret.result.val, 125, 128) = <<115, 102, 51, 50>>

NoLutBlocks ==
    \* an entry count of 0: header and matrix only
    /\ Mhc2Built
    /\ ret.call.lut_entries = 0
    /\ Len(ret.result.val) = 84
    /\ UnsignedAt(ret.result.val, 24) = 0

ChannelOffset(data, c) == UnsignedAt(data, 20 + 4 * c)

ChannelDecodes(data, c) ==
    \* the offset of channel c is not 0, its block of 8 + 4 * count bytes lies
    \* within the data, and the block starts with 'sf32'
    /\ ChannelOffset(data, c) # 0
    /\ ChannelOffset(data, c) + 8 + 4 * UnsignedAt(data, 8) <= Len(data)
    /\ SubSeq(data, ChannelOffset(data, c) + 1, ChannelOffset(data, c) + 4)
           = <<115, 102, 51, 50>>

SignedFixedAt(data, at) == [num |-> WordAt(data, at), den |-> 65536]

ChannelAsStored(data, c, channel) ==
    /\ Len(channel) = UnsignedAt(data, 8)
    /\ \A i \in 1..Len(channel) :
          channel[i] = SignedFixedAt(data, ChannelOffset(data, c) + 8 + 4 * (i - 1))

\* C22: parse_mhc2 raises exactly for data shorter than 36 bytes and data
\* that does not start with 'MHC2'.  For all other data it returns the entry
\* count and the two luminances of the header, the matrix when it lies within
\* the data, and for a count above 0 three channels: a channel whose offset
\* is 0, whose block does not fit or whose nested signature is not 'sf32' is
\* empty, every other channel holds its count samples.
C22_Mhc2Parse ==
    pc = "parse_mhc2" =>
        /\ ret.result.ok <=> (Len(ret.call.data) >= 36
                              /\ SubSeq(ret.call.data, 1, 4) = <<77, 72, 67, 50>>)
        /\ ret.result.ok =>
              /\ ret.result.val.count = UnsignedAt(ret.call.data, 8)
              /\ ret.result.val.min_nits = SignedFixedAt(ret.call.data, 12)
              /\ ret.result.val.peak_nits = SignedFixedAt(ret.call.data, 16)
              /\ (UnsignedAt(ret.call.data, 20) # 0
                  /\ UnsignedAt(ret.call.data, 20) + 48 <= Len(ret.call.data)) =>
                    /\ Len(ret.result.val.matrix) = 12
                    /\ \A k \in 1..12 :
                          ret.result.val.matrix[k]
                              = SignedFixedAt(ret.call.data,
                                              UnsignedAt(ret.call.data, 20) + 4 * (k - 1))
              /\ UnsignedAt(ret.call.data, 8) > 0 =>
                    /\ Len(ret.result.val.lut_values) = 3
                    /\ \A c \in 1..3 :
                          IF ChannelDecodes(ret.call.data, c)
                          THEN ChannelAsStored(ret.call.data, c, ret.result.val.lut_values[c])
                          ELSE ret.result.val.lut_values[c] = <<>>

C22_Witness ==
    \* the nested signature of the second of three blocks of two entries is
    \* not 'sf32': that channel is empty, the others and the matrix are decoded
    /\ pc = "parse_mhc2"
    /\ ret.result.ok
    /\ Len(ret.call.data) = 132
    /\ ret.result.val.count = 2
    /\ SubSeq(ret.call.data, 101, 104) # <<115, 102, 51, 50>>
    /\ ret.result.val.lut_values[2] = <<>>
    /\ ret.result.val.lut_values[1] = <<[num |-> 0, den |-> 65536], [num |-> 65536, den |-> 65536]>>
    /\ Len(ret.result.val.lut_values[3]) = 2
    /\ Len(ret.result.val.matrix) = 12
    /\ ret.result.val.peak_nits = [num |-> 6553600, den |-> 65536]

TextBuilt ==
    \* build_text_type has returned for a text of ASCII characters
    pc = "build_text_type" /\ IsAscii(ret.call.content)

TextShape(s, out) ==
    \* 'text', four zero bytes, the bytes of s, and up to three zero bytes
    \* that make the length a multiple of 4
    /\ Len(out) = Pad4(8 + Len(s))
    /\ SubSeq(out, 1, 8) = <<116, 101, 120, 116, 0, 0, 0, 0>>
    /\ SubSeq(out, 9, 8 + Len(s)) = s
    /\ \A i \in (9 + Len(s))..Len(out) : out[i] = 0

WithoutTrailingNul(s) ==
    \* s up to its last character that is not NUL
    SubSeq(s, 1, CHOOSE n \in 0..Len(s) :
                     /\ n = 0 \/ s[n] # 0
                     /\ \A i \in (n + 1)..Len(s) : s[i] = 0)

\* C23 as stated: for every ASCII string s, build_text_type(s) is 'text', 4
\* zero bytes, the bytes of s and 0-3 zero bytes up to a multiple of 4, and
\* parse_text_type returns s from it.
C23_Original ==
    TextBuilt =>
        /\ TextShape(ret.call.content, ret.result)
        /\ parse_text_type(ret.result) = Ok(ret.call.content)

\* C23: for every ASCII string s, build_text_type(s) is 'text', 4 zero bytes,
\* the bytes of s and 0-3 zero bytes up to a multiple of 4, and
\* parse_text_type returns from it s without its trailing NUL characters: s
\* itself exactly when s does not end with NUL.
C23_TextRoundTrip ==
    TextBuilt =>
        /\ TextShape(ret.call.content, ret.result)
        /\ parse_text_type(ret.result) = Ok(WithoutTrailingNul(ret.call.content))
        /\ parse_text_type(ret.result) = Ok(ret.call.content)
              <=> (ret.call.content = <<>> \/ ret.call.content[Len(ret.call.content)] # 0)

C23_Witness ==
    /\ TextBuilt
    /\ ret.call.content = <<65, 32, 65>>
    /\ ret.result = <<116, 101, 120, 116, 0, 0, 0, 0, 65, 32, 65, 0>>
    /\ parse_text_type(ret.result) = Ok(<<65, 32, 65>>)

TrailingNulLost ==
    \* "A" + NUL comes back as "A"
    /\ TextBuilt
    /\ ret.call.content = <<65, 0>>
    /\ parse_text_type(ret.result) = Ok(<<65>>)

----------------------------------------------------------------------------
(* The chromaticity conversions as functions of their arguments (SpecChroma) *)

MaxQuarters == 4

ChromaValues ==
    \* the multiples of 1/4 from -MaxQuarters/4 to MaxQuarters/4
    { frac(n, 4) : n \in (0 - MaxQuarters)..MaxQuarters }

ChromaTriples == { <<a, b, c>> : a \in ChromaValues, b \in ChromaValues, c \in ChromaValues }

XyzTagPool ==
    \* XYZ tags under the signatures of the XYZ workspace, and a tag of 4 bytes
    { NewTag(1, sig, build_xyz_bytes([num |-> 25 * v[1].num * (4 \div v[1].den), places |-> 2],
                                     [num |-> 25 * v[2].num * (4 \div v[2].den), places |-> 2],
                                     [num |-> 25 * v[3].num * (4 \div v[3].den), places |-> 2]).val) :
        sig \in {sig_wtpt, <<114, 88, 89, 90>>},
        v \in { w \in ChromaTriples : w[1].num >= 0 /\ w[3].num \in {0, 1} } }
    \cup { NewTag(1, sig_wtpt, <<88, 89, 90, 32>>) }

ChromaCalls ==
    { [fn |-> fn, xyz |-> v] :
        fn \in {"XYZ_to_xyY_custom", "update_chromaticity_labels"}, v \in ChromaTriples }
    \cup { [fn |-> "xy_to_XYZ_custom", xy |-> <<a, b>>, Y |-> c] :
             a \in ChromaValues, b \in ChromaValues, c \in {frac_one, frac(1, 2)} }
    \cup { [fn |-> "xyY_to_XYZ_custom", xyy |-> v] : v \in ChromaTriples }
    \cup { [fn |-> "render_xyz_workspace", tag |-> tag] : tag \in XyzTagPool }

InitChroma ==
    \* the state that __init__ leaves, and the call that is made next
    \E hv \in {default_header_values_hex(DefaultClock)} :
    \E r \in {refresh_tag_table(ExampleTags, hv, render_header_fields(hv, "human"),
                                "human", <<>>)} :
        /\ header_mode = "human"
        /\ header_values_hex = r.values_hex
        /\ header_vars = r.hvars
        /\ tags = r.tags
        /\ selected_tag = <<>>
        /\ tag_table = r.rows
        /\ next_id = Len(ExampleTags) + 1
        /\ workspace = NewWorkspace
        /\ disk = NoFiles
        /\ pc = "init"
        /\ \E call \in ChromaCalls : ret = call

XyToXYZ ==
    /\ Called("xy_to_XYZ_custom")
    /\ Returned("xy_to_XYZ_custom", ret, xy_to_XYZ_custom(ret.xy, ret.Y))

XyYToXYZ ==
    /\ Called("xyY_to_XYZ_custom")
    /\ Returned("xyY_to_XYZ_custom", ret, xyY_to_XYZ_custom(ret.xyy))

XYZToXyY ==
    /\ Called("XYZ_to_xyY_custom")
    /\ Returned("XYZ_to_xyY_custom", ret, XYZ_to_xyY_custom(ret.xyz))

UpdateChromaticityLabels ==
    /\ Called("update_chromaticity_labels")
    /\ Returned("update_chromaticity_labels", ret,
                update_chromaticity_labels(ret.xyz[1], ret.xyz[2], ret.xyz[3]))

RenderXyzWorkspace ==
    /\ Called("render_xyz_workspace")
    /\ Returned("render_xyz_workspace", ret, render_xyz_workspace(ret.tag))

NextChroma ==
    \/ XyToXYZ
    \/ XyYToXYZ
    \/ XYZToXyY
    \/ UpdateChromaticityLabels
    \/ RenderXyzWorkspace

SpecChroma == InitChroma /\ [][NextChroma]_vars

----------------------------------------------------------------------------
(* Properties of the chromaticity conversions (SpecChroma) *)

SumsToZero(v) == frac_add(frac_add(v[1], v[2]), v[3]).num = 0

ZeroLabels == <<<<48, 46, 48, 48, 48, 48, 48, 48>>, <<48, 46, 48, 48, 48, 48, 48, 48>>>>

TagXyz(tag) ==
    \* the three numbers of an XYZ tag
    [i \in 1..3 |-> frac(WordAt(data_bytes(tag).val, 4 + 4 * i), 65536)]

\* C24: no chromaticity derivation divides by zero.  XYZ_to_xyY_custom gives
\* the chromaticity (0, 0) for every XYZ whose components sum to zero;
\* xy_to_XYZ_custom and xyY_to_XYZ_custom give (0, 0, 0) for every y = 0;
\* update_chromaticity_labels and the rendering of an XYZ tag return, and
\* show the chromaticity 0.000000, 0.000000 when the components sum to zero.
C24_NoDivisionByZero ==
    /\ (pc = "XYZ_to_xyY_custom" /\ SumsToZero(ret.call.xyz)) =>
          ret.result[1].num = 0 /\ ret.result[2].num = 0
    /\ (pc = "xy_to_XYZ_custom" /\ ret.call.xy[2].num = 0) =>
          \A i \in 1..3 : ret.result[i].num = 0
    /\ (pc = "xyY_to_XYZ_custom" /\ ret.call.xyy[2].num = 0) =>
          \A i \in 1..3 : ret.result[i].num = 0
    /\ pc = "update_chromaticity_labels" =>
          /\ ret.result.ok
          /\ SumsToZero(ret.call.xyz) => ret.result.val = ZeroLabels
    /\ pc = "render_xyz_workspace" =>
          /\ ret.result.ok
          /\ (ret.result.val.workspace = "xyz" /\ SumsToZero(TagXyz(ret.call.tag))) =>
                ret.result.val.chroma = ZeroLabels

ConversionsGuarded ==
    \* the three conversion functions return zeros where they would divide by zero
    /\ (pc = "XYZ_to_xyY_custom" /\ SumsToZero(ret.call.xyz)) =>
          ret.result = <<frac_zero, frac_zero, frac_zero>>
    /\ (pc \in {"xy_to_XYZ_custom", "xyY_to_XYZ_custom"}
        /\ (IF pc = "xy_to_XYZ_custom" THEN ret.call.xy[2] ELSE ret.call.xyy[2]).num = 0) =>
          ret.result = <<frac_zero, frac_zero, frac_zero>>

ZeroSumRaises ==
    \* update_chromaticity_labels raises exactly for a sum of zero, and with it
    \* the rendering of an XYZ tag whose numbers sum to zero
    /\ pc = "update_chromaticity_labels" => (ret.result.ok <=> ~SumsToZero(ret.call.xyz))
    /\ (pc = "render_xyz_workspace" /\ Len(data_bytes(ret.call.tag).val) >= 20) =>
          (ret.result.ok <=> ~SumsToZero(TagXyz(ret.call.tag)))

----------------------------------------------------------------------------
(* The profile held across a rejected load (SpecLoad) *)

LoadRejections ==
    \* the messages of the raises that precede the assignments of load_profile
    { "File too small to be a valid ICC profile.",
      "Missing required 'acsp' signature.",
      "Tag table exceeds file size.",
      "Tag out of bounds",
      "Tag overlaps header/tag table" }

\* C25: a load that load_profile rejects, for whichever validation failure,
\* leaves the profile as it was held: the header values and what the header
\* fields show, the tag list with its order, and the data of every tag.
C25_RejectedLoadKeeps ==
    [][(pc' = "load_profile" /\ ~ret'.accepted) =>
          /\ ret'.err \in LoadRejections
          /\ header_values_hex' = header_values_hex
          /\ header_vars' = header_vars
          /\ header_mode' = header_mode
          /\ Len(tags') = Len(tags)
          /\ \A i \in 1..Len(tags) :
                /\ tags'[i].signature = tags[i].signature
                /\ tags'[i].data_hex = tags[i].data_hex
                /\ tags'[i] = tags[i]]_vars

C25_Witness ==
    /\ pc = "load_profile"
    /\ ~ret.accepted
    /\ ret.err = "Tag overlaps header/tag table"
    /\ Len(tags) = 2
    /\ tags[1].signature = sig_wtpt
    /\ data_bytes(tags[1]) = Ok(xyz_D50_bytes)
    /\ tags[2].signature = sig_desc

----------------------------------------------------------------------------
(* The LUT that build_mhc2_bytes writes (SpecTag) *)

ThreeChannelsOf(held, n) ==
    \* the held LUT is three channels of n samples each
    /\ Len(held) = 3
    /\ \A c \in 1..3 : Len(held[c]) = n

WrittenSample(out, n, c, i) ==
    \* sample i of channel c in the output for n entries, as a signed word
    unpack_i32(SubSeq(out, 84 + (c - 1) * LutBlockLen(n) + 8 + 4 * (i - 1) + 1,
                      84 + (c - 1) * LutBlockLen(n) + 8 + 4 * i))

Ramp(i, n) ==
    \* round(65536 * i / (n - 1)) for i in 0..n-1, and 0 for n = 1
    IF n = 1 THEN 0 ELSE RoundHalfEven(i * 65536, n - 1)

Mhc2Reencoded ==
    \* a decoded MHC2 tag with entries was encoded again without an edit
    /\ pc = "rebuild_mhc2_from_ui"
    /\ ret.result.ok
    /\ parse_mhc2(ret.call.data, ret.call.tags).val.count > 0

\* C29: for an entry count n > 0 build_mhc2_bytes writes the held channels
\* exactly when the held LUT is three channels of n samples each; with no
\* held LUT, another number of channels, or a channel of another length (an
\* empty one among them) it writes the ramp i/(n-1), i in 0..n-1 (0 for
\* n = 1), in all three channels.  A tag that is decoded and encoded again
\* keeps its LUT only if all three channels were decoded.
C29_Mhc2Lut ==
    /\ (Mhc2Built /\ ret.call.lut_entries > 0) =>
          \A c \in 1..3 : \A i \in 1..ret.call.lut_entries :
              WrittenSample(ret.result.val, ret.call.lut_entries, c, i)
                  = IF ThreeChannelsOf(ret.call.lut_values, ret.call.lut_entries)
                    THEN to_s15fixed16(ret.call.lut_values[c][i])
                    ELSE Ramp(i - 1, ret.call.lut_entries)
    /\ Mhc2Reencoded =>
          (parse_mhc2(ret.result.val, ret.call.tags).val.lut_values
               = parse_mhc2(ret.call.data, ret.call.tags).val.lut_values
           => \A c \in 1..3 :
                 parse_mhc2(ret.call.data, ret.call.tags).val.lut_values[c] # <<>>)

C29_Witness ==
    \* three entries asked for while channels of two samples are held
    /\ Mhc2Built
    /\ ret.call.lut_entries = 3
    /\ Len(ret.call.lut_values) = 3
    /\ \A c \in 1..3 : Len(ret.call.lut_values[c]) = 2
    /\ \A c \in 1..3 :
          <<WrittenSample(ret.result.val, 3, c, 1), WrittenSample(ret.result.val, 3, c, 2),
            WrittenSample(ret.result.val, 3, c, 3)>> = <<0, 32768, 65536>>

HeldChannelsWritten ==
    \* the held channels of three samples are the ones written
    /\ Mhc2Built
    /\ ret.call.lut_entries = 3
    /\ ThreeChannelsOf(ret.call.lut_values, 3)
    /\ WrittenSample(ret.result.val, 3, 1, 1) = 16384
    /\ WrittenSample(ret.result.val, 3, 3, 3) = 65536

ChannelLostOnReencode ==
    \* a tag with one channel that does not decode comes back as the ramp
    /\ Mhc2Reencoded
    /\ \E c \in 1..3 : parse_mhc2(ret.call.data, ret.call.tags).val.lut_values[c] = <<>>
    /\ \E c \in 1..3 : parse_mhc2(ret.call.data, ret.call.tags).val.lut_values[c] # <<>>
    /\ parse_mhc2(ret.result.val, ret.call.tags).val.lut_values
          = [c \in 1..3 |->
                [i \in 1..parse_mhc2(ret.call.data, ret.call.tags).val.count |->
                    [num |-> Ramp(i - 1, parse_mhc2(ret.call.data, ret.call.tags).val.count),
                     den |-> 65536]]]

\* A tag whose three channels decode keeps its LUT when it is encoded again.
DecodedLutKept ==
    (Mhc2Reencoded
     /\ \A c \in 1..3 : parse_mhc2(ret.call.data, ret.call.tags).val.lut_values[c] # <<>>)
        => parse_mhc2(ret.result.val, ret.call.tags).val.lut_values
              = parse_mhc2(ret.call.data, ret.call.tags).val.lut_values

----------------------------------------------------------------------------
(* The tag table and the tag editors in use (SpecEdit) *)

MaxObjects == 6

MaxRemoved == 1

MaxMoved == 1

MaxCurves == 2

Moved(ts) ==
    \* the pairs of tags that stand in another order than they were made in
    Cardinality({p \in (1..Len(ts)) \X (1..Len(ts)) : p[1] < p[2] /\ ts[p[1]].id > ts[p[2]].id})

Curves(ts) ==
    \* the data in the tag list that the sample does not hold
    Cardinality({ts[i].data_hex : i \in 1..Len(ts)}
                \ {bytes_hex_upper(DEFAULT_TAGS_SAMPLE[i][2]) : i \in 1..Len(DEFAULT_TAGS_SAMPLE)})

AddableSignatures == {sig_rTRC, sig_gTRC, sig_bTRC, sig_chad, sig_wtpt}

GammaPresets ==
    \* "Gamma=1.8" of the preset list
    { [num |-> 18, places |-> 1] }

CurveFiles ==
    \* the values of a curve file with three lines
    { <<0, 32768, 65535>> }

ApplyInputs ==
    \* what the fields of the editors hold when "Apply Changes" is pressed:
    \* numbers and bytes that build, and texts that do not
    { [hex |-> <<1, 2, 3, 4>>,
       xyz |-> <<<<48, 46, 53>>, <<49>>, <<48, 46, 50, 53>>>>,
       lumi |-> <<56, 48>>, msca |-> <<65>>,
       mluc |-> <<[lang |-> <<101, 110>>, country |-> <<85, 83>>, text |-> <<65>>]>>,
       mhc2 |-> [min |-> <<48, 46, 53>>, peak |-> <<49, 48, 48>>, entries |-> <<50>>,
                 matrix_vars |-> identity_matrix12, lut_values |-> <<>>]],
      [hex |-> <<>>,
       xyz |-> <<<<>>, <<49>>, <<120>>>>,
       lumi |-> <<>>, msca |-> <<>>, mluc |-> <<>>,
       mhc2 |-> [min |-> <<>>, peak |-> <<>>, entries |-> <<>>,
                 matrix_vars |-> identity_matrix12, lut_values |-> <<>>]] }

InitEdit ==
    /\ InitApp(default_tags(1))
    /\ disk = NoFiles

Handled(name, r, result) ==
    \* the handler "name" has run and left r
    /\ pc' = name
    /\ ret' = result
    /\ tags' = r.tags
    /\ tag_table' = r.rows
    /\ header_values_hex' = r.values_hex
    /\ header_vars' = r.hvars
    /\ selected_tag' = r.selected
    /\ workspace' = r.workspace
    /\ UNCHANGED disk

ResetProfile ==
    \* File > New Profile
    \E r \in {reset_profile(tags, tag_table, selected_tag, workspace, next_id)} :
        /\ next_id <= MaxObjects
        /\ Handled("reset_profile", r, [ok |-> r.ok])
        /\ header_mode' = "human"
        /\ next_id' = next_id + Len(DEFAULT_TAGS_SAMPLE)

AddFromSearch ==
    \* "Add Selected" with a line of the search list active
    \E sig \in AddableSignatures \ {tags[i].signature : i \in 1..Len(tags)} :
    \E r \in {add_from_search(tags, header_values_hex, header_vars, header_mode, tag_table,
                              selected_tag, workspace, sig, next_id)} :
        /\ next_id <= MaxObjects
        /\ Curves(r.tags) <= MaxCurves
        /\ Handled("add_from_search", r, [ok |-> r.ok, sig |-> sig])
        /\ next_id' = next_id + 1
        /\ UNCHANGED header_mode

ReorderTag ==
    \* "Move Up" and "Move Down"
    \E delta \in {-1, 1} :
    \E r \in {reorder_tag(tags, header_values_hex, header_vars, header_mode, tag_table,
                          selected_tag, workspace, delta)} :
        /\ selected_tag # <<>>
        /\ Moved(r.tags) <= MaxMoved
        /\ Handled("reorder_tag", r, [ok |-> r.ok, delta |-> delta])
        /\ UNCHANGED <<header_mode, next_id>>

RemoveTag ==
    \* "Remove", while the button is enabled
    \E r \in {remove_tag(tags, header_values_hex, header_vars, header_mode, tag_table,
                         selected_tag, workspace)} :
        /\ workspace.buttons # <<>>
        /\ selected_tag # <<>>
        /\ Len(tags) > Len(DEFAULT_TAGS_SAMPLE) - MaxRemoved
        /\ Handled("remove_tag", r, [ok |-> r.ok])
        /\ UNCHANGED <<header_mode, next_id>>

ApplyTagChanges ==
    \* "Apply Changes"
    \E edit \in ApplyInputs :
    \E r \in {apply_tag_changes(tags, header_values_hex, header_vars, header_mode, tag_table,
                                selected_tag, workspace, edit)} :
        /\ selected_tag # <<>>
        /\ Curves(r.tags) <= MaxCurves
        /\ Handled("apply_tag_changes", r,
                   [ok |-> r.ok,
                    hex |-> edit.hex,
                    trc |-> /\ selected_object(tags, selected_tag, workspace)[1].signature
                                  \in TrcSignatures
                            /\ workspace.kind = "trc"
                            /\ workspace.mode = "human"
                            /\ r.ok,
                    new_hex |-> IF workspace.trc_values = <<>> THEN <<>>
                                ELSE bytes_hex_upper(build_trc_bytes(workspace.trc_values[1]))])
        /\ UNCHANGED <<header_mode, next_id>>

ToggleWorkspaceMode ==
    \* "Human/Hex"
    \E r \in {toggle_workspace_mode(tags, selected_tag, workspace)} :
        /\ selected_tag # <<>>
        /\ workspace.kind # ""
        /\ pc' = "toggle_workspace_mode"
        /\ ret' = [ok |-> r.ok]
        /\ workspace' = r.workspace
        /\ UNCHANGED <<header_mode, header_values_hex, header_vars, tags, selected_tag,
                       tag_table, disk, next_id>>

ApplyIdentityChad ==
    \* "Identity chad", while the button is enabled
    \E r \in {apply_identity_chad(tags, header_values_hex, header_vars, header_mode,
                                  tag_table, selected_tag, workspace)} :
        /\ workspace.buttons = <<sig_chad>>
        /\ selected_tag # <<>>
        /\ selected_object(tags, selected_tag, workspace)[1].signature = sig_chad
        /\ Handled("apply_identity_chad", r, [ok |-> r.ok])
        /\ UNCHANGED <<header_mode, next_id>>

ApplyTrcGammaPreset ==
    \* "Apply preset" of the TRC editor with a gamma chosen
    \E gamma_val \in GammaPresets :
    \E r \in {apply_trc_gamma_value(tags, header_values_hex, header_vars, tag_table,
                                    selected_tag, workspace, gamma_val)} :
        /\ workspace.frame = "trc"
        /\ Curves(r.tags) <= MaxCurves
        /\ Handled("apply_trc_gamma_value", r,
                   [ok |-> r.ok,
                    trc |-> /\ selected_tag # <<>>
                            /\ selected_object(tags, selected_tag, workspace)[1].signature
                                  \in TrcSignatures,
                    new_hex |-> bytes_hex_upper(build_trc_bytes(r.workspace.trc_values[1]))])
        /\ UNCHANGED <<header_mode, next_id>>

LoadTrcFromFile ==
    \* "Load curve from file..." of the TRC editor
    \E values \in CurveFiles :
    \E r \in {load_trc_from_file(tags, header_values_hex, header_vars, tag_table,
                                 selected_tag, workspace, values)} :
        /\ workspace.frame = "trc"
        /\ Curves(r.tags) <= MaxCurves
        /\ Handled("load_trc_from_file", r,
                   [ok |-> r.ok,
                    trc |-> /\ selected_tag # <<>>
                            /\ selected_object(tags, selected_tag, workspace)[1].signature
                                  \in TrcSignatures,
                    new_hex |-> bytes_hex_upper(build_trc_bytes(values))])
        /\ UNCHANGED <<header_mode, next_id>>

NextEdit ==
    \/ SelectTag
    \/ ApplyTagChanges
    \/ ToggleWorkspaceMode
    \/ ApplyIdentityChad
    \/ ApplyTrcGammaPreset
    \/ LoadTrcFromFile
    \/ ResetProfile

SpecEdit == InitEdit /\ [][NextEdit]_vars

NextList ==
    \/ SelectTag
    \/ AddFromSearch
    \/ ReorderTag
    \/ RemoveTag
    \/ ResetProfile

SpecList == InitEdit /\ [][NextList]_vars

----------------------------------------------------------------------------
(* The selected tag and the tag list (SpecEdit) *)

\* C26: after any sequence of the handlers the selected tag is none or an
\* element of the tag list, so that an edit of the selected tag is an edit of
\* a tag that is written on save.
C26_SelectedInList ==
    \/ selected_tag = <<>>
    \/ \E i \in 1..Len(tags) : <<tags[i].id>> = selected_tag

EditOutsideList ==
    \* "Apply Changes" has stored the bytes of the hex view, and no tag of
    \* self.tags holds them: they went to an object that the list had lost
    /\ pc = "apply_tag_changes"
    /\ ret.ok
    /\ workspace.kind = ""
    /\ ret.hex # <<>>
    /\ \A i \in 1..Len(tags) : tags[i].data_hex # bytes_hex_upper(ret.hex)

----------------------------------------------------------------------------
(* The tone curves that an edit reaches (SpecEdit) *)

TrcEdits == {"apply_tag_changes", "apply_trc_gamma_value", "load_trc_from_file"}

SharesCurve(tag) ==
    \* a TRC tag of the list whose data is the data of the selected tag
    /\ selected_tag # <<>>
    /\ tag.signature \in TrcSignatures
    /\ tag.data_hex = selected_object(tags, selected_tag, workspace)[1].data_hex

\* C27: a tone-curve edit applied while a TRC tag is selected gives the new
\* encoding to the selected tag and to every other TRC tag whose data was
\* equal to the selected tag's data, and leaves every other tag's data as it
\* was, whatever was selected before.
C27_TrcEditShared ==
    [][(pc' \in TrcEdits /\ ret'.trc) =>
          /\ Len(tags') = Len(tags)
          /\ \A i \in 1..Len(tags) :
                tags'[i].data_hex = IF <<tags[i].id>> = selected_tag \/ SharesCurve(tags[i])
                                    THEN ret'.new_hex ELSE tags[i].data_hex]_vars

SelectedCurveKept ==
    \* a gamma preset has written the other two curves and not the selected one
    /\ pc = "apply_trc_gamma_value"
    /\ ret.trc
    /\ \E i \in 1..Len(tags) : <<tags[i].id>> = selected_tag /\ tags[i].data_hex # ret.new_hex
    /\ \E i \in 1..Len(tags) : <<tags[i].id>> # selected_tag /\ tags[i].data_hex = ret.new_hex

----------------------------------------------------------------------------
(* The stored offsets and the stored size (SpecEdit) *)

StoredAs(ts, values_hex, lay) ==
    \* what compute_offsets and update_profile_size_display would store now
    /\ \A i \in 1..Len(ts) : ts[i].offset = lay.layout[i].offset
    /\ values_hex["size"] = int_to_hex(lay.total_size, 4).val

\* C28: after every operation that changes the tag list or a tag's data, each
\* tag's stored offset is the offset the layout assigns to it for the current
\* tag list, and the stored header size is the layout's total size.
C28_StoredLayout ==
    _layout_tags(tags).ok => StoredAs(tags, header_values_hex, _layout_tags(tags))

StaleAfterCurveFile ==
    \* a curve file was loaded into the selected TRC tag, and the offsets and
    \* the size are still those of the data before it
    /\ pc = "load_trc_from_file"
    /\ ret.trc
    /\ \E i \in 1..Len(tags) : tags[i].data_hex = ret.new_hex
    /\ ~StoredAs(tags, header_values_hex, _layout_tags(tags))

----------------------------------------------------------------------------
(* The tag list under add, remove, reorder and reset (SpecList) *)

Entry(tag) == [id |-> tag.id, signature |-> tag.signature, data_hex |-> tag.data_hex]

Entries(ts) == [i \in 1..Len(ts) |-> Entry(ts[i])]

NoTwoAlike(ts) ==
    \A i, j \in 1..Len(ts) : i # j => ts[i].signature # ts[j].signature

KeptOrAdded ==
    \* every tag of the new list was in the list, or is the one added last
    \A i \in 1..Len(tags') :
        \/ \E j \in 1..Len(tags) : Entry(tags[j]) = Entry(tags'[i])
        \/ /\ pc' = "add_from_search"
           /\ i = Len(tags')
           /\ Len(tags') = Len(tags) + 1
           /\ tags'[i].signature = ret'.sig
           /\ \A j \in 1..Len(tags) : tags[j].id # tags'[i].id

AdjacentSwap ==
    \* the new list is the old one, or the old one with two neighbours exchanged
    \/ Entries(tags') = Entries(tags)
    \/ \E k \in 1..(Len(tags) - 1) : Entries(tags') = swapped(Entries(tags), k, k + 1)

AtTheEnd(delta) ==
    \* the selected tag stands first and goes up, or stands last and goes down
    \/ delta = -1 /\ <<tags[1].id>> = selected_tag
    \/ delta = 1 /\ <<tags[Len(tags)].id>> = selected_tag

ListStep ==
    /\ pc' # "reset_profile" => KeptOrAdded
    /\ pc' = "reset_profile" => Entries(tags') = Entries(default_tags(next_id))
    /\ pc' = "reorder_tag" =>
          /\ AdjacentSwap
          /\ (Len(tags) > 0 /\ AtTheEnd(ret'.delta)) => Entries(tags') = Entries(tags)

\* C30: from the default profile, under add from search, remove, reorder and
\* reset, no two tags of the list have the same signature, the list holds only
\* tags that were in it or were added, and a reorder exchanges two adjacent
\* tags and nothing else, doing nothing at either end of the list.
C30_TagListEdits == [](NoTwoAlike(tags)) /\ [][ListStep]_vars

C30_Witness ==
    \* a tag was removed, another added and moved up
    /\ pc = "reorder_tag"
    /\ ret.ok
    /\ Moved(tags) > 0
    /\ \E i \in 1..Len(tags) : tags[i].id > Len(DEFAULT_TAGS_SAMPLE)

ReorderAtTheEnd ==
    \* "Move Down" was pressed with the last tag selected
    /\ pc = "reorder_tag"
    /\ ret.delta = 1
    /\ Len(tags) > 0
    /\ <<tags[Len(tags)].id>> = selected_tag
    /\ Moved(tags) = 0
====
